---- MODULE Spec2Model ----
(***************************************************************************)
(* A model of the todo web application's client logic:                     *)
(*   - the task list filter / sort pipeline of the tasks page              *)
(*     (frontend/src/app/tasks/page.tsx, applyFiltersAndSorting),          *)
(*   - the tasks page view-model (load, toggle, edit, delete, controls),   *)
(*   - the recent-activity feed (components/Dashboard/RecentActivity.tsx), *)
(*   - the new-task page and the in-process 'task-activity' events.        *)
(*                                                                         *)
(* Strings are sequences of one-letter strings, so that toLowerCase,       *)
(* includes, charAt and localeCompare are computed letter by letter.       *)
(* Instants are integers; a calendar day holds DayLen instants.            *)
(* An optional field (description?, due_date?) is <<>> when absent and     *)
(* <<v>> when present.                                                     *)
(***************************************************************************)
EXTENDS Integers, Sequences, FiniteSets, TLC

VARIABLES
    \* ---- tasks page (TasksPage component state) ----
    tasks,          \* useState<Task[]>                        page.tsx:14
    filteredTasks,  \* useState<Task[]>                        page.tsx:15
    loading,        \* useState(true)                          page.tsx:16
    searchTerm,     \* useState('')                            page.tsx:17
    filter,         \* useState('all')                         page.tsx:18
    sortBy,         \* useState('created_at')                  page.tsx:19
    sortOrder,      \* useState('desc')                        page.tsx:20
    editingTask,    \* useState<Task | null>(null)             page.tsx:167
    editFormData,   \* useState<CreateTaskData>                page.tsx:168
    showConfirmDelete, \* the ids of the task items whose useState holds their id  page.tsx:453
    effectPending,  \* the effect of page.tsx:108-110 is scheduled and has not run
    \* ---- recent-activity feed (RecentActivity component state) ----
    activities,     \* useState<ActivityItem[]>([])            RecentActivity.tsx:15
    feedLoading,    \* useState(true)                          RecentActivity.tsx:16
    feedError,      \* useState<string | null>(null)           RecentActivity.tsx:17
    listening,      \* the 'task-activity' listener is registered (the feed is mounted)
    fetchedDistinct, \* history: the response last fetched held no id twice
    \* ---- environment ----
    isAuthenticated, \* useAuth()
    token,          \* useAuth(): <<>> or <<t>>
    route,          \* the page the router shows
    now,            \* the wall clock read by new Date() and Date.now()
    tzOffset,       \* the local time zone: local time = UTC + tzOffset instants
    pending,        \* the requests awaiting their response, in the order issued
    ops,            \* user interactions so far
    lastEmitted,    \* the 'task-activity' detail dispatched by the last step, if any
    lastStep,       \* history: what the last step let the user and the window see
    \* ---- dashboard (DashboardPage component state) ----
    stats,          \* useState({total, completed, pending})   dashboard/page.tsx:15
    dashLoading,    \* useState(true)                          dashboard/page.tsx:14
    serverTasks,    \* the tasks the back end holds for the user
    deletedIds,     \* history: the ids of the tasks the back end has deleted
    \* ---- harness of the pure-function specification ----
    phase,          \* "input" | "applied" | "reapplied" | "time" | "formatted"
    reapplied,      \* the pipeline applied to its own output
    dateString,     \* the argument of formatTimeAgo: <<>> or <<milliseconds>>
    formatted,      \* what formatTimeAgo returned: <<>> or <<text>>
    call,           \* the tasksApi function called, or "none"
    response,       \* what the API client answered the call with
    result          \* what the tasksApi function returned: <<>> or <<result>>

paramVars == <<searchTerm, filter, sortBy, sortOrder>>
editVars == <<editingTask, editFormData>>
pageVars == <<tasks, filteredTasks, loading, paramVars, editVars, showConfirmDelete,
              effectPending>>
feedVars == <<activities, feedLoading, feedError, listening, fetchedDistinct>>
authVars == <<isAuthenticated, token>>
envVars == <<authVars, route, now, pending, ops, lastEmitted, lastStep>>
apiVars == <<call, response, result>>
pipeVars == <<phase, reapplied, dateString, formatted, apiVars, tzOffset>>

serverVars == <<serverTasks, deletedIds>>
dashVars == <<stats, dashLoading, serverVars>>

vars == <<pageVars, feedVars, envVars, pipeVars, dashVars>>

-----------------------------------------------------------------------------
(* Bounds of the model *)

\* longest task collection drawn as an input of the pipeline
MaxTasks == 3

\* instants per calendar day (>= 2, so that a day has a start and a later instant)
DayLen == 2

\* user interactions in one behaviour of the tasks page
MaxOps == 3

\* distinct ids a client-side activity can get
MaxActIds == 2

\* longest list GET /activities/recent answers with (above the feed's limit)
MaxServerActs == 11

\* events of task operations elsewhere in the window ('task-updated',
\* 'task-activity') in one behaviour of the dashboard
MaxUpdates == 2

-----------------------------------------------------------------------------
(* Optional values and small helpers *)

None == <<>>
Some(v) == <<v>>
IsSome(o) == o # <<>>
TheVal(o) == o[1]

Range(s) == {s[i] : i \in 1..Len(s)}

\* Array.prototype.slice(0, n)
Slice0(s, n) == SubSeq(s, 1, IF Len(s) < n THEN Len(s) ELSE n)

-----------------------------------------------------------------------------
(* Strings *)

\* String.prototype.toLowerCase, letter by letter
LowerChar(c) == CASE c = "A" -> "a" [] c = "B" -> "b" [] OTHER -> c
toLowerCase(s) == [i \in 1..Len(s) |-> LowerChar(s[i])]
IsLowerCase(c) == LowerChar(c) = c

\* String.prototype.includes
includes(s, term) ==
    \E i \in 0..(Len(s) - Len(term)) : SubSeq(s, i + 1, i + Len(term)) = term

\* collation weight of a letter (its base letter), and of its case
BaseWeight(c) == CASE LowerChar(c) = "a" -> 1 [] OTHER -> 2
CaseWeight(c) == IF IsLowerCase(c) THEN 0 ELSE 1

\* lexicographic three-way comparison of two sequences of integers
RECURSIVE LexCompare(_, _)
LexCompare(x, y) ==
    IF x = <<>> /\ y = <<>> THEN 0
    ELSE IF x = <<>> THEN -1
    ELSE IF y = <<>> THEN 1
    ELSE IF Head(x) < Head(y) THEN -1
    ELSE IF Head(x) > Head(y) THEN 1
    ELSE LexCompare(Tail(x), Tail(y))

\* String.prototype.localeCompare: base letters first, then case (lower first)
localeCompare(s, t) ==
    LET primary == LexCompare([i \in 1..Len(s) |-> BaseWeight(s[i])],
                              [i \in 1..Len(t) |-> BaseWeight(t[i])])
    IN IF primary # 0 THEN primary
       ELSE LexCompare([i \in 1..Len(s) |-> CaseWeight(s[i])],
                       [i \in 1..Len(t) |-> CaseWeight(t[i])])

-----------------------------------------------------------------------------
(* Dates *)

\* the calendar day of an instant in the local time zone
localDay(t) == (t + tzOffset) \div DayLen

\* the instant at which a calendar day starts in the local time zone
localMidnight(day) == day * DayLen - tzOffset

\* Date.prototype.setHours(0,0,0,0): the start of the instant's calendar day
setHoursZero(t) == localMidnight(localDay(t))

\* getToday: "Today" at midnight
getToday(clock) == setHoursZero(clock)

-----------------------------------------------------------------------------
(* Tasks *)

Priorities == {"low", "medium", "high"}
Filters == {"all", "active", "completed", "overdue", "upcoming"}
SortKeys == {"created_at", "due_date", "priority", "title"}
SortOrders == {"asc", "desc"}

Task(id, title, description, completed, priority, due, created) ==
    [id |-> id, title |-> title, description |-> description,
     completed |-> completed, priority |-> priority, due_date |-> due,
     created_at |-> created]

\* The tasks the inputs are drawn from: every priority, present and absent
\* descriptions and due dates, due dates around the day boundaries, and ties
\* on every sort key.
TaskPool ==
    { Task(1, <<"b">>,      None,                FALSE, "low",    None,             1),
      Task(2, <<"A", "b">>, Some(<<"b", "a">>),  FALSE, "high",   Some(DayLen),     2),
      Task(3, <<"a">>,      Some(<<>>),          FALSE, "medium", Some(DayLen - 1), 2),
      Task(4, <<"B", "a">>, Some(<<"A">>),       TRUE,  "high",   Some(DayLen + 1), 3),
      Task(5, <<"a", "b">>, None,                FALSE, "low",    Some(DayLen + 1), 3),
      Task(6, <<"b">>,      Some(<<"a", "B">>),  TRUE,  "medium", None,             1) }

SearchTerms == { <<>>, <<"a">>, <<"A", "b">>, <<"B">> }

Clocks == { DayLen, DayLen + 1, 2 * DayLen }

\* sequences of at most n pool tasks with pairwise distinct ids
RECURSIVE TaskLists(_)
TaskLists(n) ==
    IF n = 0 THEN { <<>> }
    ELSE LET shorter == TaskLists(n - 1)
         IN shorter \cup
            { Append(s, t) : s \in {x \in shorter : Len(x) = n - 1},
                             t \in TaskPool }

DistinctIds(s) == \A i, j \in 1..Len(s) : i # j => s[i].id # s[j].id

-----------------------------------------------------------------------------
(* The filter / sort pipeline: applyFiltersAndSorting *)

\* the search predicate matching against the term as typed
SearchKeepsRawTerm(task, st) ==
    \/ includes(toLowerCase(task.title), st)
    \/ /\ IsSome(task.description)
       /\ includes(toLowerCase(TheVal(task.description)), st)

\* 1. Search filter (the predicate of result.filter)
SearchKeeps(task, st) ==
    LET term == toLowerCase(st)
    IN \/ includes(toLowerCase(task.title), term)
       \/ /\ IsSome(task.description)
          /\ includes(toLowerCase(TheVal(task.description)), term)

\* the status predicate with 'overdue' reaching up to today itself
StatusKeepsInclusive(task, f, clock) ==
    LET today == getToday(clock)
        hasDate == IsSome(task.due_date)
        taskDate == setHoursZero(TheVal(task.due_date))
    IN CASE f = "active"    -> ~task.completed
         [] f = "completed" -> task.completed
         [] f = "overdue"   -> ~task.completed /\ hasDate /\ taskDate <= today
         [] f = "upcoming"  -> ~task.completed /\ hasDate /\ taskDate >= today
         [] OTHER           -> TRUE

\* 2. Status filter (the predicate of result.filter)
StatusKeeps(task, f, clock) ==
    LET today == getToday(clock)
        hasDate == IsSome(task.due_date)
        taskDate == setHoursZero(TheVal(task.due_date))
    IN CASE f = "active"    -> ~task.completed
         [] f = "completed" -> task.completed
         [] f = "overdue"   -> ~task.completed /\ hasDate /\ taskDate < today
         [] f = "upcoming"  -> ~task.completed /\ hasDate /\ taskDate >= today
         [] OTHER           -> TRUE

pOrder(p) == CASE p = "high" -> 3 [] p = "medium" -> 2 [] OTHER -> 1

\* 3. The comparator handed to result.sort
Comparator(a, b, sb, so) ==
    LET comparison ==
          CASE sb = "title" -> localeCompare(a.title, b.title)
            [] sb = "due_date" ->
                 IF ~IsSome(a.due_date) /\ ~IsSome(b.due_date) THEN 0
                 ELSE IF ~IsSome(a.due_date) THEN 1
                 ELSE IF ~IsSome(b.due_date) THEN -1
                 ELSE TheVal(a.due_date) - TheVal(b.due_date)
            [] sb = "priority" -> pOrder(b.priority) - pOrder(a.priority)
            [] OTHER -> b.created_at - a.created_at
    IN IF so = "asc" THEN comparison ELSE -comparison

\* an insertion that puts an element before the elements it ties with
RECURSIVE InsertSortedBeforeTies(_, _, _, _)
InsertSortedBeforeTies(sorted, x, sb, so) ==
    IF sorted = <<>> THEN <<x>>
    ELSE LET last == sorted[Len(sorted)]
             front == SubSeq(sorted, 1, Len(sorted) - 1)
         IN IF Comparator(last, x, sb, so) >= 0
            THEN Append(InsertSortedBeforeTies(front, x, sb, so), last)
            ELSE Append(sorted, x)

\* Array.prototype.sort with a comparator: a stable sort (ECMAScript 2019),
\* computed by insertion from the left
RECURSIVE InsertSorted(_, _, _, _)
InsertSorted(sorted, x, sb, so) ==
    IF sorted = <<>> THEN <<x>>
    ELSE LET last == sorted[Len(sorted)]
             front == SubSeq(sorted, 1, Len(sorted) - 1)
         IN IF Comparator(last, x, sb, so) > 0
            THEN Append(InsertSorted(front, x, sb, so), last)
            ELSE Append(sorted, x)

RECURSIVE SortFrom(_, _, _, _)
SortFrom(done, todo, sb, so) ==
    IF todo = <<>> THEN done
    ELSE SortFrom(InsertSorted(done, Head(todo), sb, so), Tail(todo), sb, so)

Reverse(s) == [i \in 1..Len(s) |-> s[Len(s) + 1 - i]]

\* a sort that orders ascending and reverses the array for 'desc'
SortTasksReversing(s, sb, so) ==
    IF so = "asc" THEN SortFrom(<<>>, s, sb, "asc")
    ELSE Reverse(SortFrom(<<>>, s, sb, "asc"))

SortTasks(s, sb, so) == SortFrom(<<>>, s, sb, so)

\* the pipeline ordering the array it was handed before filtering a copy of it
applyFiltersAndSortingInPlace(tasksToFilter, st, f, sb, so, clock) ==
    LET sorted   == SortTasks(tasksToFilter, sb, so)
        searched == IF st # <<>>
                    THEN SelectSeq(sorted, LAMBDA t : SearchKeeps(t, st))
                    ELSE sorted
    IN [source |-> sorted,
        filteredTasks |-> SelectSeq(searched, LAMBDA t : StatusKeeps(t, f, clock))]

\* applyFiltersAndSorting(tasksToFilter) under the render's searchTerm, filter,
\* sortBy and sortOrder: what the call leaves in the array it was handed
\* (source) and what it passes to setFilteredTasks (filteredTasks).
\* `result` starts as a copy, each filter yields a new array, and sort orders
\* `result` in place; `alias` tells whether `result` is the caller's array.
applyFiltersAndSorting(tasksToFilter, st, f, sb, so, clock) ==
    LET copied   == [arr |-> tasksToFilter, alias |-> FALSE]
        searched == IF st # <<>>
                    THEN [arr |-> SelectSeq(copied.arr, LAMBDA t : SearchKeeps(t, st)),
                          alias |-> FALSE]
                    ELSE copied
        statused == [arr |-> SelectSeq(searched.arr, LAMBDA t : StatusKeeps(t, f, clock)),
                     alias |-> FALSE]
        sorted   == [arr |-> SortTasks(statused.arr, sb, so), alias |-> statused.alias]
    IN [source |-> IF sorted.alias THEN sorted.arr ELSE tasksToFilter,
        filteredTasks |-> sorted.arr]

-----------------------------------------------------------------------------
(* Specification of the pipeline as a pure function: the inputs are drawn  *)
(* in the initial state, Apply runs the pipeline, Reapply runs it on its   *)
(* own output.                                                             *)

\* what a step shows: the request that ended and how ("ok", "failed" for
\* success: false, "thrown"), whether alert() was called, whether an inline
\* error text was set, and whether 'task-updated' was dispatched
Step(op, outcome, alert, errorText, updated) ==
    [op |-> op, outcome |-> outcome, alert |-> alert, errorText |-> errorText,
     updated |-> updated]

NoStep == Step("none", "none", FALSE, FALSE, FALSE)

\* the ways a request ends without success
Failures == {"failed", "thrown"}

\* what the API client answers with: {success, data?, error?}
ClientResponse(success, data, error) ==
    [success |-> success, data |-> data, error |-> error]

\* no tasksApi function is being called
ApiIdle ==
    /\ call = "none"
    /\ response = ClientResponse(TRUE, <<>>, <<>>)
    /\ result = <<>>

\* the statistics of the dashboard before any fetch (dashboard/page.tsx:15-19)
NoStats == [total |-> 0, completed |-> 0, pending |-> 0]

\* the dashboard is not on screen, or was just mounted
DashAbsent ==
    /\ stats = NoStats
    /\ dashLoading = TRUE

\* the state of the components and of the environment the pure-function
\* harness leaves alone
Idle ==
    /\ DashAbsent
    /\ serverTasks = <<>>
    /\ deletedIds = {}
    /\ loading = FALSE
    /\ editingTask = <<>>
    /\ editFormData = [title |-> <<>>, description |-> <<>>, priority |-> "medium",
                       due_date |-> <<>>]
    /\ showConfirmDelete = {}
    /\ effectPending = FALSE
    /\ activities = <<>>
    /\ feedLoading = FALSE
    /\ feedError = <<>>
    /\ listening = FALSE
    /\ fetchedDistinct = TRUE
    /\ isAuthenticated = TRUE
    /\ token = <<1>>
    /\ route = "tasks"
    /\ pending = <<>>
    /\ ops = 0
    /\ lastEmitted = <<>>
    /\ lastStep = NoStep

PipeInit ==
    /\ tasks \in {s \in TaskLists(MaxTasks) : DistinctIds(s)}
    /\ searchTerm \in SearchTerms
    /\ filter \in Filters
    /\ sortBy \in SortKeys
    /\ sortOrder \in SortOrders
    /\ now \in Clocks
    /\ filteredTasks = <<>>
    /\ reapplied = <<>>
    /\ dateString = <<>>
    /\ formatted = <<>>
    /\ tzOffset = 0
    /\ ApiIdle
    /\ phase = "input"
    /\ Idle

Apply ==
    /\ phase = "input"
    /\ LET r == applyFiltersAndSorting(tasks, searchTerm, filter, sortBy, sortOrder, now)
       IN /\ tasks' = r.source
          /\ filteredTasks' = r.filteredTasks
    /\ phase' = "applied"
    /\ UNCHANGED <<loading, paramVars, editVars, showConfirmDelete, effectPending, feedVars,
                   envVars,
                   reapplied, dateString, formatted, apiVars, tzOffset, dashVars>>

Reapply ==
    /\ phase = "applied"
    /\ reapplied' = applyFiltersAndSorting(filteredTasks, searchTerm, filter,
                                           sortBy, sortOrder, now).filteredTasks
    /\ phase' = "reapplied"
    /\ UNCHANGED <<pageVars, feedVars, envVars, dateString, formatted, apiVars, tzOffset,
                   dashVars>>

PipeNext == Apply \/ Reapply

SpecPipe == PipeInit /\ [][PipeNext]_vars

-----------------------------------------------------------------------------
(* formatTimeAgo (utils/timeUtils).  In this specification instants are    *)
(* milliseconds since the epoch, as Date.getTime() gives them, and the     *)
(* local time zone is UTC.                                                 *)

\* milliseconds around each boundary drawn as inputs
MaxJitter == 1

Second == 1000
Minute == 60
Hour == 3600
Day == 86400
Week == 604800

\* Math.ceil((now.getTime() - date.getTime()) / 1000)
secondsBetweenCeil(nowMs, dateMs) == -((dateMs - nowMs) \div Second)

\* Math.floor((now.getTime() - date.getTime()) / 1000)
secondsBetween(nowMs, dateMs) == (nowMs - dateMs) \div Second

\* the plural 's' whatever the number
pluralAlways(n) == "s"

\* `${n !== 1 ? 's' : ''}`
plural(n) == IF n # 1 THEN "s" ELSE ""

\* Date.prototype.toDateString(): the calendar day of an instant
toDateString(ms) == ms \div (Day * Second)

\* toLocaleTimeString([], {hour: '2-digit', minute: '2-digit'}): the minute of the day
toLocaleTimeString(ms) == (ms % (Day * Second)) \div (Minute * Second)

\* the day of the week of an instant (0 = Sunday; the epoch was a Thursday)
weekday(ms) == (toDateString(ms) + 4) % 7

formatTimeAgo(ds, nowMs) ==
    IF ds = <<>> THEN [form |-> "just now"]
    ELSE LET date == ds[1]
             seconds == secondsBetween(nowMs, date)
             minutes == seconds \div Minute
             hours == seconds \div Hour
             yesterday == toDateString(nowMs) - 1
         IN IF seconds < Minute THEN [form |-> "just now"]
            ELSE IF seconds < Hour
            THEN [form |-> "ago", n |-> minutes, unit |-> "minute", s |-> plural(minutes)]
            ELSE IF seconds < Day
            THEN [form |-> "ago", n |-> hours, unit |-> "hour", s |-> plural(hours)]
            ELSE IF toDateString(date) = toDateString(nowMs)
            THEN [form |-> "Today at", time |-> toLocaleTimeString(date)]
            ELSE IF toDateString(date) = yesterday
            THEN [form |-> "Yesterday at", time |-> toLocaleTimeString(date)]
            ELSE IF seconds < Week
            THEN [form |-> "weekday", weekday |-> weekday(date),
                  time |-> toLocaleTimeString(date)]
            ELSE [form |-> "date", day |-> toDateString(date)]

\* the instants new Date() gives: midnight, an hour later and the last
\* minute of one day
TimeNows ==
    { 12 * Day * Second + h : h \in {0, Hour * Second, (Day - Minute) * Second} }

\* the ages of the timestamps drawn, in seconds: the boundaries of the
\* cases, and values between them
TimeAges ==
    {-5, 0, 30, Minute, 90, 2 * Minute, Hour - Minute, Hour, 2 * Hour - 1, 2 * Hour,
     Day - Hour, Day, Day + Hour, 2 * Day, 3 * Day, Week, 10 * Day}

TimeInit ==
    /\ now \in TimeNows
    /\ \/ dateString = <<>>
       \/ \E age \in TimeAges, jitter \in -MaxJitter..MaxJitter :
             dateString = << now - (age * Second + jitter) >>
    /\ formatted = <<>>
    /\ tzOffset = 0
    /\ ApiIdle
    /\ reapplied = <<>>
    /\ phase = "time"
    /\ tasks = <<>>
    /\ filteredTasks = <<>>
    /\ searchTerm = <<>>
    /\ filter = "all"
    /\ sortBy = "created_at"
    /\ sortOrder = "desc"
    /\ Idle

\* {formatTimeAgo(activity.created_at)} (RecentActivity.tsx:174)
Format ==
    /\ phase = "time"
    /\ formatted' = << formatTimeAgo(dateString, now) >>
    /\ phase' = "formatted"
    /\ UNCHANGED <<pageVars, feedVars, envVars, reapplied, dateString, apiVars, tzOffset,
                   dashVars>>

TimeNext == Format

SpecTime == TimeInit /\ [][TimeNext]_vars

-----------------------------------------------------------------------------
(* tasksApi (api/tasks): each function awaits one call of the API client   *)
(* and turns the client's response into its result.  An absent key of a    *)
(* result (tasks?, task?, error?) is <<>>.                                  *)

ApiResult(success, tasksKey, taskKey, error) ==
    [success |-> success, tasks |-> tasksKey, task |-> taskKey, error |-> error]

\* if (response.success)
getAllTasks(r) ==
    IF r.success THEN ApiResult(TRUE, r.data, None, None)
    ELSE ApiResult(FALSE, None, None, r.error)

\* createTask succeeding whenever the client does
createTaskIgnoringData(r) ==
    IF r.success THEN ApiResult(TRUE, None, r.data, None)
    ELSE ApiResult(FALSE, None, None, r.error)

\* if (response.success && response.data)
createTask(r) ==
    IF r.success /\ IsSome(r.data) THEN ApiResult(TRUE, None, r.data, None)
    ELSE ApiResult(FALSE, None, None, r.error)

updateTask(r) ==
    IF r.success /\ IsSome(r.data) THEN ApiResult(TRUE, None, r.data, None)
    ELSE ApiResult(FALSE, None, None, r.error)

\* if (response.success)
deleteTask(r) ==
    IF r.success THEN ApiResult(TRUE, None, None, None)
    ELSE ApiResult(FALSE, None, None, r.error)

getTaskById(r) ==
    IF r.success /\ IsSome(r.data) THEN ApiResult(TRUE, None, r.data, None)
    ELSE ApiResult(FALSE, None, None, r.error)

ApiFunctions == {"getAllTasks", "createTask", "updateTask", "deleteTask", "getTaskById"}

tasksApi(fn, r) ==
    CASE fn = "getAllTasks" -> getAllTasks(r)
      [] fn = "createTask" -> createTask(r)
      [] fn = "updateTask" -> updateTask(r)
      [] fn = "deleteTask" -> deleteTask(r)
      [] OTHER -> getTaskById(r)

\* the bodies the client's responses are drawn from: none, or a list of
\* tasks for GET /tasks (empty, or of two tasks) and a task for the others
ClientData(fn) ==
    IF fn = "getAllTasks"
    THEN {None, Some(<<>>)}
            \cup {Some(<<t, u>>) : t \in {x \in TaskPool : x.id = 1},
                                   u \in {x \in TaskPool : x.id = 4}}
    ELSE {None} \cup {Some(t) : t \in {x \in TaskPool : x.id \in {1, 4}}}

ClientErrors == {None, Some("Not found"), Some("Network error")}

ClientResponses(fn) ==
    {ClientResponse(success, data, error) :
        success \in BOOLEAN, data \in ClientData(fn), error \in ClientErrors}

ApiInit ==
    /\ call \in ApiFunctions
    /\ response \in ClientResponses(call)
    /\ result = <<>>
    /\ phase = "api"
    /\ reapplied = <<>>
    /\ dateString = <<>>
    /\ formatted = <<>>
    /\ tzOffset = 0
    /\ tasks = <<>>
    /\ filteredTasks = <<>>
    /\ searchTerm = <<>>
    /\ filter = "all"
    /\ sortBy = "created_at"
    /\ sortOrder = "desc"
    /\ now = DayLen
    /\ Idle

\* the function returns
Return ==
    /\ phase = "api"
    /\ result' = << tasksApi(call, response) >>
    /\ phase' = "returned"
    /\ UNCHANGED <<pageVars, feedVars, envVars, reapplied, dateString, formatted, call,
                   response, tzOffset, dashVars>>

ApiNext == Return

SpecApi == ApiInit /\ [][ApiNext]_vars

\* C23: every tasksApi function returns a normalized result: createTask,
\* updateTask and getTaskById return success=true with the task equal to the
\* response data exactly when the client response is successful and carries
\* data, getAllTasks and deleteTask return success=true exactly when the
\* client response is successful, and every result with success=false carries
\* the client's error string.
C23_NormalizedResult ==
    phase = "returned" =>
        LET res == result[1]
        IN /\ call \in {"createTask", "updateTask", "getTaskById"} =>
                 /\ res.success <=> (response.success /\ response.data # <<>>)
                 /\ res.success => res.task = response.data
           /\ call \in {"getAllTasks", "deleteTask"} =>
                 (res.success <=> response.success)
           /\ res.success \in BOOLEAN
           /\ ~res.success => res.error = response.error

C23_Witness ==
    /\ phase = "returned"
    /\ call = "createTask"
    /\ response.success
    /\ response.data = <<>>
    /\ ~result[1].success
    /\ result[1].error = response.error

-----------------------------------------------------------------------------
(* Requests in flight.  An async handler runs to its await, the request    *)
(* carries what the rest of the handler reads from its closure, and the    *)
(* response runs the rest.  `orphan` marks a request whose component has   *)
(* been unmounted since: its setState calls are dropped, its               *)
(* window.dispatchEvent calls are not.  `answer` is the body the back end  *)
(* has sent for the request, once it has; `gone` are the ids the back end  *)
(* had deleted when the request was issued.                                *)

NoParams == [st |-> <<>>, f |-> "all", sb |-> "created_at", so |-> "desc"]

Req(kind, tok, params, task, found, form) ==
    [kind |-> kind, orphan |-> FALSE, token |-> tok, params |-> params, task |-> task,
     found |-> found, form |-> form, answer |-> None, gone |-> deletedIds]

RemoveAt(s, i) == SubSeq(s, 1, i - 1) \o SubSeq(s, i + 1, Len(s))

Orphaned(reqs, kinds) ==
    [i \in 1..Len(reqs) |->
        IF reqs[i].kind \in kinds THEN [reqs[i] EXCEPT !.orphan = TRUE] ELSE reqs[i]]

PageKinds == {"load", "toggle", "delete", "edit"}

\* fetchTaskStats of the dashboard, up to its await, as the mount effect
\* calls it: fetchTaskStats().finally(...) (dashboard/page.tsx:63-65)
fetchTaskStatsRequests(auth, tok) ==
    IF ~auth \/ tok = <<>> THEN <<>> ELSE << Req("stats", tok, NoParams, None, None, None) >>

\* fetchTaskStats as the 'task-updated' listener calls it: no .finally()
Refresh(reqs) == [i \in 1..Len(reqs) |-> [reqs[i] EXCEPT !.kind = "refresh"]]

StatsKinds == {"stats", "refresh"}

\* window.dispatchEvent(new CustomEvent('task-updated')): the dashboard, while
\* mounted, listens and calls fetchTaskStats (dashboard/page.tsx:71-81)
handleTaskUpdated(updated) ==
    IF updated /\ route = "dashboard"
    THEN Refresh(fetchTaskStatsRequests(isAuthenticated, token)) ELSE <<>>

-----------------------------------------------------------------------------
(* The recent-activity feed: handleTaskActivity *)

\* the limit of the feed: slice(0, 10)
FeedLimit == 10

\* the ids Date.now() and Math.random() can give a client-side activity
ActIds == 1..MaxActIds

\* the detail of a 'task-activity' event (ActivityItem of the front end)
ActivityDetail(n, type, task, clock) ==
    [id |-> <<"act", n>>, type |-> type, taskId |-> task.id,
     taskTitle |-> task.title, timestamp |-> clock]

\* the event's detail converted to the back end's shape
convertedActivity(detail) ==
    [id |-> detail.id, action |-> detail.type, task_title |-> detail.taskTitle,
     created_at |-> detail.timestamp]

\* the merge without the removal of the entries that have the new id
handleTaskActivityNoDedupe(prevActivities, detail) ==
    Slice0(<<convertedActivity(detail)>> \o prevActivities, FeedLimit)

\* the merge that puts the new entry behind the kept ones
handleTaskActivityAppending(prevActivities, detail) ==
    Slice0(SelectSeq(prevActivities,
                     LAMBDA activity : activity.id # convertedActivity(detail).id)
               \o <<convertedActivity(detail)>>, FeedLimit)

\* the updater passed to setActivities by handleTaskActivity
handleTaskActivity(prevActivities, detail) ==
    LET filteredActivities ==
            SelectSeq(prevActivities,
                      LAMBDA activity : activity.id # convertedActivity(detail).id)
    IN Slice0(<<convertedActivity(detail)>> \o filteredActivities, FeedLimit)

\* window.dispatchEvent(new CustomEvent('task-activity', {detail})): the
\* listener, when registered, runs before dispatchEvent returns
ActivitiesAfterDispatch(detail) ==
    IF listening THEN handleTaskActivity(activities, detail) ELSE activities

-----------------------------------------------------------------------------
(* The tasks page *)

\* the options of the status and sort selects, and what is typed in the search box
FilterOptions == {"all", "active", "completed", "overdue"}
SortOptions == {"created_at", "due_date", "priority"}
TypedTerms == { <<>>, <<"a">> }

\* what useAuth() can hold: logged out, or logged in with one of two tokens
AuthStates == { <<FALSE, <<>> >>, <<TRUE, <<1>> >>, <<TRUE, <<2>> >> }

PoolTask(i) == CHOOSE t \in TaskPool : t.id = i

\* the task lists GET /tasks answers with
LoadResponses == { <<>>,
                   <<PoolTask(1), PoolTask(2)>>,
                   <<PoolTask(3), PoolTask(4), PoolTask(1)>> }

\* what the user enters in the edit modal
EditTitles == { <<"b", "a">>, <<>> }
EditDueDates == { None, Some(1) }

UpperChar(c) == CASE c = "a" -> "A" [] c = "b" -> "B" [] OTHER -> c

\* title.charAt(0).toUpperCase() + title.slice(1)
Capitalize(title) ==
    IF title = <<>> THEN <<>> ELSE <<UpperChar(title[1])>> \o Tail(title)

\* new Date(due_date).toISOString().split('T')[0]: the calendar day of the
\* instant in UTC
isoDay(t) == t \div DayLen

\* new Date(day + 'T00:00:00').toISOString(): a date-time string without an
\* offset is local time, so this is the local midnight of the calendar day
midnightOf(day) == localMidnight(day)

\* the dependency array of the filter effect without the task collection
EffectDepsWithoutTasks == {"searchTerm", "filter", "sortBy", "sortOrder"}

\* the dependency array of the filter effect (page.tsx:110)
EffectDeps == {"searchTerm", "filter", "sortBy", "sortOrder", "tasks"}

\* a state variable of the array changed: the effect is scheduled
Scheduled(name) == effectPending \/ name \in EffectDeps

\* the controls and the task items are rendered once loading is false
PageShown == route = "tasks" /\ ~loading

UserCan == ops < MaxOps

\* the first part of loadTasks, up to its await: the requests it adds and
\* the route it leaves
loadTasksRoute(auth, tok) ==
    IF ~auth \/ tok = <<>> THEN "login" ELSE "tasks"

\* loadTasks without its authentication check
loadTasksRequestsUnguarded(auth, tok, params) ==
    << Req("load", tok, params, None, None, None) >>

loadTasksRequests(auth, tok, params) ==
    IF ~auth \/ tok = <<>> THEN <<>> ELSE << Req("load", tok, params, None, None, None) >>

CurrentParams == [st |-> searchTerm, f |-> filter, sb |-> sortBy, so |-> sortOrder]

\* leaving the tasks page unmounts it
AfterUnmount(reqs, newRoute) ==
    IF newRoute # "tasks" THEN Orphaned(reqs, PageKinds) ELSE reqs

\* useAuth() changes (login, logout, token refresh) while the tasks page is
\* mounted: the effect of page.tsx:106 calls loadTasks
AuthChange ==
    /\ route = "tasks"
    /\ UserCan
    /\ \E a \in AuthStates :
          /\ <<isAuthenticated, token>> # a
          /\ isAuthenticated' = a[1]
          /\ token' = a[2]
          /\ route' = loadTasksRoute(a[1], a[2])
          /\ pending' = AfterUnmount(pending \o loadTasksRequests(a[1], a[2], CurrentParams),
                                     loadTasksRoute(a[1], a[2]))
    /\ ops' = ops + 1
    /\ lastEmitted' = <<>>
    /\ lastStep' = NoStep
    /\ UNCHANGED <<pageVars, feedVars, now, pipeVars, dashVars>>

\* the task items on screen: filteredTasks.map(task => <TaskItem key={task.id} />)
ItemIds(shown) == {shown[k].id : k \in 1..Len(shown)}

\* an item that leaves the list is unmounted and loses its state
StillMounted(confirming, shown) == confirming \cap ItemIds(shown)

\* the lists GET /tasks answers a request with: the back end read its task
\* set after the request was issued, so a task deleted before that is not in it
LoadAnswers(req) ==
    {list \in LoadResponses : \A k \in 1..Len(list) : list[k].id \notin req.gone}

\* the rest of loadTasks: the response of tasksApi.getAllTasks
LoadResponse ==
    \E i \in 1..Len(pending) :
        /\ pending[i].kind = "load"
        /\ pending' = RemoveAt(pending, i)
        /\ lastEmitted' = <<>>
        /\ lastStep' = NoStep
        /\ \/ \* response.success, with response.tasks || []
              \E loadedTasks \in LoadAnswers(pending[i]) :
                 LET q == pending[i].params
                     r == applyFiltersAndSorting(loadedTasks, q.st, q.f, q.sb, q.so, now)
                 IN IF pending[i].orphan
                    THEN UNCHANGED <<tasks, filteredTasks, loading, showConfirmDelete, effectPending>>
                    ELSE /\ tasks' = r.source
                         /\ filteredTasks' = r.filteredTasks
                         /\ showConfirmDelete' = StillMounted(showConfirmDelete,
                                                              r.filteredTasks)
                         /\ effectPending' = Scheduled("tasks")
                         /\ loading' = FALSE
           \/ \* success: false, or the call throws
              /\ loading' = IF pending[i].orphan THEN loading ELSE FALSE
              /\ UNCHANGED <<tasks, filteredTasks, showConfirmDelete, effectPending>>
        /\ UNCHANGED <<paramVars, editVars, feedVars, authVars, route, now, ops, pipeVars, dashVars>>

\* the effect of page.tsx:108-110
RunEffect ==
    /\ route = "tasks"
    /\ effectPending
    /\ LET r == applyFiltersAndSorting(tasks, searchTerm, filter, sortBy, sortOrder, now)
       IN /\ tasks' = r.source
          /\ filteredTasks' = r.filteredTasks
          /\ showConfirmDelete' = StillMounted(showConfirmDelete, r.filteredTasks)
    /\ effectPending' = FALSE
    /\ lastEmitted' = <<>>
    /\ lastStep' = NoStep
    /\ UNCHANGED <<loading, paramVars, editVars, feedVars, authVars, route, now,
                   pending, ops, pipeVars, dashVars>>

\* the search box, the two selects and the direction button
SetSearchTerm ==
    /\ PageShown /\ UserCan
    /\ \E v \in TypedTerms : v # searchTerm /\ searchTerm' = v
    /\ effectPending' = Scheduled("searchTerm")
    /\ ops' = ops + 1
    /\ lastEmitted' = <<>>
    /\ lastStep' = NoStep
    /\ UNCHANGED <<tasks, filteredTasks, loading, showConfirmDelete, filter, sortBy, sortOrder, editVars,
                   feedVars, authVars, route, now, pending, pipeVars, dashVars>>

SetFilter ==
    /\ PageShown /\ UserCan
    /\ \E v \in FilterOptions : v # filter /\ filter' = v
    /\ effectPending' = Scheduled("filter")
    /\ ops' = ops + 1
    /\ lastEmitted' = <<>>
    /\ lastStep' = NoStep
    /\ UNCHANGED <<tasks, filteredTasks, loading, showConfirmDelete, searchTerm, sortBy, sortOrder, editVars,
                   feedVars, authVars, route, now, pending, pipeVars, dashVars>>

SetSortBy ==
    /\ PageShown /\ UserCan
    /\ \E v \in SortOptions : v # sortBy /\ sortBy' = v
    /\ effectPending' = Scheduled("sortBy")
    /\ ops' = ops + 1
    /\ lastEmitted' = <<>>
    /\ lastStep' = NoStep
    /\ UNCHANGED <<tasks, filteredTasks, loading, showConfirmDelete, searchTerm, filter, sortOrder, editVars,
                   feedVars, authVars, route, now, pending, pipeVars, dashVars>>

ToggleSortOrder ==
    /\ PageShown /\ UserCan
    /\ sortOrder' = IF sortOrder = "asc" THEN "desc" ELSE "asc"
    /\ effectPending' = Scheduled("sortOrder")
    /\ ops' = ops + 1
    /\ lastEmitted' = <<>>
    /\ lastStep' = NoStep
    /\ UNCHANGED <<tasks, filteredTasks, loading, showConfirmDelete, searchTerm, filter, sortBy, editVars,
                   feedVars, authVars, route, now, pending, pipeVars, dashVars>>

\* the task PUT /tasks/{id} answers with: the stored task with the sent fields
ToggledTask(task) == [task EXCEPT !.completed = ~task.completed]

EditedTask(task, data) ==
    [task EXCEPT !.title = data.title,
                 !.description = Some(data.description),
                 !.priority = data.priority,
                 !.due_date = IF IsSome(data.due_date) THEN data.due_date ELSE @]

\* an update that moves the updated task to the head of the collection
ReplaceByIdMovingFirst(prev, id, updatedTask) ==
    IF \E k \in 1..Len(prev) : prev[k].id = id
    THEN <<updatedTask>> \o SelectSeq(prev, LAMBDA t : t.id # id)
    ELSE prev

\* prev.map(t => t.id === id ? updatedTask : t)
ReplaceById(prev, id, updatedTask) ==
    [k \in 1..Len(prev) |-> IF prev[k].id = id THEN updatedTask ELSE prev[k]]

\* tasks.find(t => t.id === taskId)
FindById(list, id) ==
    IF \E k \in 1..Len(list) : list[k].id = id
    THEN Some(list[CHOOSE k \in 1..Len(list) :
                     list[k].id = id /\ \A m \in 1..(k - 1) : list[m].id # id])
    ELSE None

\* handleToggleComplete, up to its await
handleToggleComplete ==
    /\ PageShown /\ UserCan
    /\ \E k \in 1..Len(filteredTasks) :
          pending' = IF token = <<>> THEN pending
                     ELSE Append(pending, Req("toggle", token, NoParams, Some(filteredTasks[k]),
                                              None, None))
    /\ ops' = ops + 1
    /\ lastEmitted' = <<>>
    /\ lastStep' = NoStep
    /\ UNCHANGED <<pageVars, feedVars, authVars, route, now, pipeVars, dashVars>>

\* the rest of handleToggleComplete: the response of tasksApi.updateTask
ToggleResponse ==
    \E i \in 1..Len(pending) :
        /\ pending[i].kind = "toggle"
        /\ \/ \* result.success && result.task
              \E n \in ActIds :
                 LET task == TheVal(pending[i].task)
                     updatedTask == ToggledTask(task)
                     activity == ActivityDetail(n,
                                    IF ~task.completed THEN "task_completed"
                                                       ELSE "task_uncompleted",
                                    updatedTask, now)
                 IN /\ IF pending[i].orphan
                       THEN UNCHANGED <<tasks, effectPending>>
                       ELSE /\ tasks' = ReplaceById(tasks, task.id, updatedTask)
                            /\ effectPending' = Scheduled("tasks")
                    /\ activities' = ActivitiesAfterDispatch(activity)
                    /\ lastEmitted' = <<activity>>
                    /\ lastStep' = Step("toggle", "ok", FALSE, FALSE, TRUE)
           \/ \* success: false: nothing; the call throws: alert
              \E outcome \in Failures :
                 /\ lastEmitted' = <<>>
                 /\ lastStep' = Step("toggle", outcome, outcome = "thrown", FALSE, FALSE)
                 /\ UNCHANGED <<tasks, effectPending, activities>>
        /\ UNCHANGED <<filteredTasks, loading, showConfirmDelete, paramVars, editVars, feedLoading, feedError,
                       listening, fetchedDistinct, authVars, route, now, ops, pipeVars, dashVars>>
        /\ pending' = RemoveAt(pending, i) \o handleTaskUpdated(lastStep'.updated)

\* an item that shows Confirm and Cancel whatever its state
ConfirmShownAlways(id) == TRUE

\* showConfirmDelete === task.id: the item shows Confirm and Cancel, else Delete
ConfirmShown(id) == id \in showConfirmDelete

\* the Delete button of a task item
handleDeleteClick ==
    /\ PageShown /\ UserCan
    /\ \E k \in 1..Len(filteredTasks) :
          /\ ~ConfirmShown(filteredTasks[k].id)
          /\ showConfirmDelete' = showConfirmDelete \cup {filteredTasks[k].id}
    /\ ops' = ops + 1
    /\ lastEmitted' = <<>>
    /\ lastStep' = Step("deleteClick", "none", FALSE, FALSE, FALSE)
    /\ UNCHANGED <<tasks, filteredTasks, loading, paramVars, editVars, effectPending,
                   feedVars, authVars, route, now, pending, pipeVars, dashVars>>

\* the Cancel button of a task item
handleCancelDelete ==
    /\ PageShown /\ UserCan
    /\ \E k \in 1..Len(filteredTasks) :
          /\ ConfirmShown(filteredTasks[k].id)
          /\ showConfirmDelete' = showConfirmDelete \ {filteredTasks[k].id}
    /\ ops' = ops + 1
    /\ lastEmitted' = <<>>
    /\ lastStep' = Step("cancelDelete", "none", FALSE, FALSE, FALSE)
    /\ UNCHANGED <<tasks, filteredTasks, loading, paramVars, editVars, effectPending,
                   feedVars, authVars, route, now, pending, pipeVars, dashVars>>

\* the Confirm button of a task item: handleConfirmDelete, and handleDeleteTask
\* up to its await
handleDeleteTask ==
    /\ PageShown /\ UserCan
    /\ \E k \in 1..Len(filteredTasks) :
          /\ ConfirmShown(filteredTasks[k].id)
          /\ pending' = IF token = <<>> THEN pending
                        ELSE Append(pending,
                                    Req("delete", token, NoParams, Some(filteredTasks[k]),
                                        FindById(tasks, filteredTasks[k].id), None))
          /\ showConfirmDelete' = showConfirmDelete \ {filteredTasks[k].id}
    /\ ops' = ops + 1
    /\ lastEmitted' = <<>>
    /\ lastStep' = Step("confirmDelete", "none", FALSE, FALSE, FALSE)
    /\ UNCHANGED <<tasks, filteredTasks, loading, paramVars, editVars, effectPending,
                   feedVars, authVars, route, now, pipeVars, dashVars>>

\* the rest of handleDeleteTask: the response of tasksApi.deleteTask
DeleteResponse ==
    \E i \in 1..Len(pending) :
        /\ pending[i].kind = "delete"
        /\ \/ \* result.success
              \E n \in ActIds :
                 LET taskId == TheVal(pending[i].task).id
                     deletedTask == pending[i].found
                 IN /\ IF pending[i].orphan
                       THEN UNCHANGED <<tasks, effectPending>>
                       ELSE /\ tasks' = SelectSeq(tasks, LAMBDA t : t.id # taskId)
                            /\ effectPending' = Scheduled("tasks")
                    /\ IF IsSome(deletedTask)
                       THEN LET activity == ActivityDetail(n, "task_deleted",
                                                           TheVal(deletedTask), now)
                            IN /\ activities' = ActivitiesAfterDispatch(activity)
                               /\ lastEmitted' = <<activity>>
                       ELSE /\ lastEmitted' = <<>>
                            /\ UNCHANGED activities
                    /\ deletedIds' = deletedIds \cup {taskId}
                    /\ lastStep' = Step("delete", "ok", FALSE, FALSE, TRUE)
           \/ \* success: false: nothing; the call throws: alert
              \E outcome \in Failures :
                 /\ lastEmitted' = <<>>
                 /\ lastStep' = Step("delete", outcome, outcome = "thrown", FALSE, FALSE)
                 /\ UNCHANGED <<tasks, effectPending, activities, deletedIds>>
        /\ UNCHANGED <<filteredTasks, loading, showConfirmDelete, paramVars, editVars, feedLoading, feedError,
                       listening, fetchedDistinct, authVars, route, now, ops, pipeVars,
                       stats, dashLoading, serverTasks>>
        /\ pending' = RemoveAt(pending, i) \o handleTaskUpdated(lastStep'.updated)

\* the form of the edit modal before any task was opened
InitialForm ==
    [title |-> <<>>, description |-> <<>>, priority |-> "medium", due_date |-> None]

handleEditClick ==
    /\ PageShown /\ UserCan
    /\ \E k \in 1..Len(filteredTasks) :
          LET task == filteredTasks[k]
          IN /\ editingTask' = Some(task)
             /\ editFormData' =
                   [title |-> task.title,
                    description |-> IF IsSome(task.description)
                                    THEN TheVal(task.description) ELSE <<>>,
                    priority |-> task.priority,
                    due_date |-> IF IsSome(task.due_date)
                                 THEN Some(isoDay(TheVal(task.due_date))) ELSE None]
    /\ ops' = ops + 1
    /\ lastEmitted' = <<>>
    /\ lastStep' = NoStep
    /\ UNCHANGED <<tasks, filteredTasks, loading, showConfirmDelete, paramVars, effectPending, feedVars,
                   authVars, route, now, pending, pipeVars, dashVars>>

\* the inputs of the modal
handleEditChange ==
    /\ PageShown /\ UserCan
    /\ IsSome(editingTask)
    /\ \/ \E v \in EditTitles : editFormData' = [editFormData EXCEPT !.title = v]
       \/ \E v \in Priorities : editFormData' = [editFormData EXCEPT !.priority = v]
       \/ \E v \in EditDueDates : editFormData' = [editFormData EXCEPT !.due_date = v]
    /\ ops' = ops + 1
    /\ lastEmitted' = <<>>
    /\ lastStep' = NoStep
    /\ UNCHANGED <<tasks, filteredTasks, loading, showConfirmDelete, paramVars, editingTask, effectPending,
                   feedVars, authVars, route, now, pending, pipeVars, dashVars>>

\* the modal's Cancel and close buttons
CancelEdit ==
    /\ PageShown /\ UserCan
    /\ IsSome(editingTask)
    /\ editingTask' = None
    /\ ops' = ops + 1
    /\ lastEmitted' = <<>>
    /\ lastStep' = NoStep
    /\ UNCHANGED <<tasks, filteredTasks, loading, showConfirmDelete, paramVars, editFormData, effectPending,
                   feedVars, authVars, route, now, pending, pipeVars, dashVars>>

\* handleSaveEdit, up to its await; the modal renders only while editingTask is set
handleSaveEdit ==
    /\ PageShown /\ UserCan
    /\ IsSome(editingTask)
    /\ LET formattedData ==
               [editFormData EXCEPT
                   !.title = Capitalize(editFormData.title),
                   !.due_date = IF IsSome(editFormData.due_date)
                                THEN Some(midnightOf(TheVal(editFormData.due_date)))
                                ELSE None]
       IN pending' = IF token = <<>> THEN pending
                     ELSE Append(pending, Req("edit", token, NoParams, editingTask, None,
                                              Some(formattedData)))
    /\ ops' = ops + 1
    /\ lastEmitted' = <<>>
    /\ lastStep' = NoStep
    /\ UNCHANGED <<pageVars, feedVars, authVars, route, now, pipeVars, dashVars>>

\* the modal after a save that stays on the page without touching the modal
EditingAfterSaveClosing(outcome, editing) == None

\* setEditingTask(null) on success only (page.tsx:215); the else branch and
\* the catch leave the modal as it is
EditingAfterSave(outcome, editing) == IF outcome = "ok" THEN None ELSE editing

\* the rest of handleSaveEdit: the response of tasksApi.updateTask
SaveResponse ==
    \E i \in 1..Len(pending) :
        /\ pending[i].kind = "edit"
        /\ \/ \* result.success && result.task
              \E n \in ActIds :
                 LET edited == TheVal(pending[i].task)
                     updatedTask == EditedTask(edited, TheVal(pending[i].form))
                     activity == ActivityDetail(n, "task_updated", updatedTask, now)
                 IN /\ IF pending[i].orphan
                       THEN UNCHANGED <<tasks, editingTask, effectPending>>
                       ELSE /\ tasks' = ReplaceById(tasks, edited.id, updatedTask)
                            /\ editingTask' = EditingAfterSave("ok", editingTask)
                            /\ effectPending' = Scheduled("tasks")
                    /\ activities' = ActivitiesAfterDispatch(activity)
                    /\ lastEmitted' = <<activity>>
                    /\ lastStep' = Step("edit", "ok", FALSE, FALSE, TRUE)
           \/ \* success: false: alert; the call throws: alert
              \E outcome \in Failures :
                 /\ lastEmitted' = <<>>
                 /\ lastStep' = Step("edit", outcome, TRUE, FALSE, FALSE)
                 /\ editingTask' = IF pending[i].orphan THEN editingTask
                                   ELSE EditingAfterSave(outcome, editingTask)
                 /\ UNCHANGED <<tasks, effectPending, activities>>
        /\ UNCHANGED <<filteredTasks, loading, showConfirmDelete, paramVars, editFormData, feedLoading,
                       feedError, listening, fetchedDistinct, authVars, route, now, ops, pipeVars, dashVars>>
        /\ pending' = RemoveAt(pending, i) \o handleTaskUpdated(lastStep'.updated)

\* the tasks page after its first render and its mount effects: loadTasks
\* has run to its await, and the filter effect has run on the empty list
PageMounted ==
    /\ tasks = <<>>
    /\ filteredTasks = <<>>
    /\ loading = TRUE
    /\ searchTerm = <<>>
    /\ filter = "all"
    /\ sortBy = "created_at"
    /\ sortOrder = "desc"
    /\ editingTask = None
    /\ editFormData = InitialForm
    /\ showConfirmDelete = {}
    /\ effectPending = FALSE

FeedAbsent ==
    /\ activities = <<>>
    /\ feedLoading = TRUE
    /\ feedError = <<>>
    /\ listening = FALSE
    /\ fetchedDistinct = TRUE

PageInit ==
    /\ PageMounted
    /\ FeedAbsent
    /\ DashAbsent
    /\ serverTasks = <<>>
    /\ deletedIds = {}
    /\ \E a \in AuthStates :
          /\ isAuthenticated = a[1]
          /\ token = a[2]
          /\ route = loadTasksRoute(a[1], a[2])
          /\ pending = loadTasksRequests(a[1], a[2], NoParams)
    /\ now \in Clocks
    /\ ops = 0
    /\ lastEmitted = <<>>
    /\ lastStep = NoStep
    /\ phase = "page"
    /\ reapplied = <<>>
    /\ dateString = <<>>
    /\ formatted = <<>>
    /\ tzOffset = 0
    /\ ApiIdle

PageNext ==
    \/ AuthChange
    \/ LoadResponse
    \/ RunEffect
    \/ SetSearchTerm
    \/ SetFilter
    \/ SetSortBy
    \/ ToggleSortOrder
    \/ handleToggleComplete
    \/ ToggleResponse
    \/ handleDeleteClick
    \/ handleCancelDelete
    \/ handleDeleteTask
    \/ DeleteResponse
    \/ handleEditClick
    \/ handleEditChange
    \/ CancelEdit
    \/ handleSaveEdit
    \/ SaveResponse

SpecPage == PageInit /\ [][PageNext]_vars

-----------------------------------------------------------------------------
(* The edit modal in a time zone other than UTC: the page shows tasks      *)
(* whose due dates are local midnights, and the user opens the modal and   *)
(* saves without touching a field.                                         *)

\* the offsets of the local time zone from UTC, in instants: behind UTC,
\* UTC itself, ahead of UTC
TzOffsets == {-1, 0, 1}

\* the calendar days the due dates are drawn from
ZoneDays == {1, 2}

\* tasks due at the local midnight of a day
ZoneTasks ==
    {[t EXCEPT !.due_date = Some(localMidnight(d))] :
        t \in {x \in TaskPool : x.id \in 1..MaxTasks}, d \in ZoneDays}

ZoneInit ==
    /\ tzOffset \in TzOffsets
    /\ now = 2 * DayLen
    /\ tasks \in {<<t>> : t \in ZoneTasks}
                 \cup {p \in {<<t, u>> : t \in ZoneTasks, u \in ZoneTasks} :
                          p[1].id < p[2].id}
    /\ filteredTasks = applyFiltersAndSorting(tasks, <<>>, "all", "created_at", "desc",
                                             now).filteredTasks
    /\ loading = FALSE
    /\ searchTerm = <<>>
    /\ filter = "all"
    /\ sortBy = "created_at"
    /\ sortOrder = "desc"
    /\ editingTask = None
    /\ editFormData = InitialForm
    /\ showConfirmDelete = {}
    /\ effectPending = FALSE
    /\ FeedAbsent
    /\ DashAbsent
    /\ serverTasks = <<>>
    /\ deletedIds = {}
    /\ isAuthenticated = TRUE
    /\ token = <<1>>
    /\ route = "tasks"
    /\ pending = <<>>
    /\ ops = 0
    /\ lastEmitted = <<>>
    /\ lastStep = NoStep
    /\ phase = "zone"
    /\ reapplied = <<>>
    /\ dateString = <<>>
    /\ formatted = <<>>
    /\ ApiIdle

ZoneNext ==
    \/ handleEditClick
    \/ handleSaveEdit
    \/ SaveResponse
    \/ RunEffect

SpecZone == ZoneInit /\ [][ZoneNext]_vars

\* C28: opening the edit modal on a task whose due_date is local midnight of
\* calendar day D and saving without changing any field sends a due_date that
\* is again local midnight of day D, for every time-zone offset.
C28_DueDateRoundTrip ==
    [][(/\ Len(pending') = Len(pending) + 1
        /\ pending'[Len(pending')].kind = "edit"
        /\ IsSome(editingTask)
        /\ IsSome(TheVal(editingTask).due_date))
          => LET due == TheVal(TheVal(editingTask).due_date)
                 sent == TheVal(pending'[Len(pending')].form).due_date
             IN (due + tzOffset) % DayLen = 0 =>
                   /\ IsSome(sent)
                   /\ (TheVal(sent) + tzOffset) % DayLen = 0
                   /\ (TheVal(sent) + tzOffset) \div DayLen = (due + tzOffset) \div DayLen]_vars

-----------------------------------------------------------------------------
(* The recent-activity feed on the dashboard *)

NoDupIds(list) == \A i, j \in 1..Len(list) : i # j => list[i].id # list[j].id

\* a record of the back end's activity log: the k-th oldest
ServerActivity(k) ==
    [id |-> <<"srv", k>>, action |-> "task_created", task_title |-> <<"a">>,
     created_at |-> k - MaxServerActs]

\* the n most recent records, newest first
ServerLog(n) == [i \in 1..n |-> ServerActivity(n + 1 - i)]

\* the same list with its second record carrying the id of the first
ServerLogRepeating(n) ==
    [i \in 1..n |-> IF i = 2 THEN [ServerLog(n)[2] EXCEPT !.id = ServerLog(n)[1].id]
                    ELSE ServerLog(n)[i]]

\* what GET /activities/recent answers with (response.data; [] when absent)
ServerResponses ==
    {ServerLog(n) : n \in {0, 2, FeedLimit, MaxServerActs}}
        \cup {ServerLogRepeating(n) : n \in {2, MaxServerActs}}

\* the fetched list without the limit
FetchedUncut(data) == data

\* response.data?.slice(0, 10) || []
Fetched(data) == Slice0(data, FeedLimit)

\* fetchActivities, up to its await, as the effect of RecentActivity.tsx:19 runs
fetchActivitiesRequests(tok) ==
    IF tok = <<>> THEN <<>> ELSE << Req("fetch", tok, NoParams, None, None, None) >>

\* the rest of fetchActivities: the response of apiClient.get
FetchResponse ==
    \E i \in 1..Len(pending) :
        /\ pending[i].kind = "fetch"
        /\ pending' = RemoveAt(pending, i)
        /\ lastEmitted' = <<>>
        /\ lastStep' = NoStep
        /\ \/ \* response.success
              \E data \in ServerResponses :
                 IF pending[i].orphan
                 THEN UNCHANGED <<activities, feedLoading, feedError, fetchedDistinct>>
                 ELSE /\ activities' = Fetched(data)
                      /\ fetchedDistinct' = NoDupIds(data)
                      /\ feedLoading' = FALSE
                      /\ UNCHANGED feedError
           \/ \* success: false, or the call throws: setError in the catch
              IF pending[i].orphan
              THEN UNCHANGED <<activities, feedLoading, feedError, fetchedDistinct>>
              ELSE /\ feedError' = <<"Failed to fetch activities">>
                   /\ feedLoading' = FALSE
                   /\ UNCHANGED <<activities, fetchedDistinct>>
        /\ UNCHANGED <<pageVars, listening, authVars, route, now, ops, pipeVars, dashVars>>

\* the activity events a task operation elsewhere in the window dispatches
EventTypes == {"task_created", "task_completed"}

\* newTask.created_at: the instant the back end stored the task, between the
\* request and its response
CreatedAtValues(clock) == DayLen..clock

\* the timestamp of an event: newTask.created_at for a creation
\* (new/page.tsx:76), new Date() for the others (page.tsx:130)
EventTimestamps(type, clock) ==
    IF type = "task_created" THEN CreatedAtValues(clock) ELSE {clock}

\* a 'task-activity' event reaches the window while the feed listens
TaskActivityEvent ==
    /\ listening
    /\ ops < MaxUpdates
    /\ \E n \in ActIds, type \in EventTypes :
          \E timestamp \in EventTimestamps(type, now) :
             LET activity == ActivityDetail(n, type, PoolTask(1), timestamp)
             IN /\ activities' = ActivitiesAfterDispatch(activity)
                /\ lastEmitted' = <<activity>>
    /\ lastStep' = NoStep
    /\ ops' = ops + 1
    /\ UNCHANGED <<pageVars, feedLoading, feedError, listening, fetchedDistinct,
                   authVars, route, now, pending, pipeVars, dashVars>>

\* the state of a component that is not on screen, or was just mounted
PageReset ==
    /\ tasks' = <<>>
    /\ filteredTasks' = <<>>
    /\ loading' = TRUE
    /\ searchTerm' = <<>>
    /\ filter' = "all"
    /\ sortBy' = "created_at"
    /\ sortOrder' = "desc"
    /\ editingTask' = None
    /\ editFormData' = InitialForm
    /\ showConfirmDelete' = {}
    /\ effectPending' = FALSE

FeedReset ==
    /\ activities' = <<>>
    /\ feedLoading' = TRUE
    /\ feedError' = <<>>
    /\ listening' = FALSE
    /\ fetchedDistinct' = TRUE

DashReset ==
    /\ stats' = NoStats
    /\ dashLoading' = TRUE

\* the requests whose continuation belongs to a mounted component
ComponentKinds == PageKinds \cup StatsKinds \cup {"fetch", "create"}

\* useAuth() changes while the dashboard is mounted: its effect (page.tsx:55)
\* leaves for /login or fetches the statistics again, and the feed's effect
\* (RecentActivity.tsx:19), when the feed is rendered, fetches again and
\* registers the listener anew
DashAuthChange ==
    /\ route = "dashboard"
    /\ UserCan
    /\ \E a \in AuthStates :
          /\ <<isAuthenticated, token>> # a
          /\ isAuthenticated' = a[1]
          /\ token' = a[2]
          /\ IF ~a[1] \/ a[2] = <<>>
             THEN /\ route' = "login"
                  /\ pending' = Orphaned(pending, ComponentKinds)
                  /\ FeedReset
                  /\ DashReset
             ELSE /\ route' = route
                  /\ UNCHANGED <<stats, dashLoading>>
                  /\ pending' = pending \o fetchTaskStatsRequests(a[1], a[2])
                                   \o (IF listening THEN fetchActivitiesRequests(a[2])
                                       ELSE <<>>)
                  /\ feedLoading' = TRUE
                  /\ feedError' = <<>>
                  /\ UNCHANGED <<activities, listening, fetchedDistinct>>
    /\ ops' = ops + 1
    /\ lastEmitted' = <<>>
    /\ lastStep' = NoStep
    /\ UNCHANGED <<pageVars, now, pipeVars, serverVars>>

\* the list GET /tasks answers a request of the dashboard with: the one the
\* back end has sent, or the one it holds when it answers as the response
\* arrives
Answer(req) == IF IsSome(req.answer) THEN TheVal(req.answer) ELSE serverTasks

\* the ways getAllTasks ends without a task list: success: false, success
\* without response.tasks, and a thrown error
StatsFailures == Failures \cup {"missing"}

\* the statistics with every task counted as pending
StatsOfCountingAll(list) ==
    [total |-> Len(list),
     completed |-> Len(SelectSeq(list, LAMBDA task : task.completed)),
     pending |-> Len(list)]

\* setStats({total, completed, pending}) of a fetched list
\* (dashboard/page.tsx:27-35)
StatsOf(list) ==
    LET completedCount == Len(SelectSeq(list, LAMBDA task : task.completed))
        pendingCount == Len(list) - completedCount
    IN [total |-> Len(list), completed |-> completedCount, pending |-> pendingCount]

\* what a fetch of the statistics leaves to be seen: the counts of the list,
\* or the zeros that the else branch and the catch both set
StatsOutcome(outcome) == IF outcome = "ok" THEN "ok" ELSE "failed"

\* what fetchTaskStats passes to setStats
StatsAfter(outcome, list) == IF outcome = "ok" THEN StatsOf(list) ELSE NoStats

\* the rest of fetchTaskStats, and the .finally() of the mount effect's call:
\* the dashboard leaves its spinner and renders the feed, whose mount effect
\* fetches and listens
StatsResponse ==
    \E i \in 1..Len(pending) :
        /\ pending[i].kind \in StatsKinds
        /\ \E outcome \in {"ok"} \cup StatsFailures :
              /\ stats' = IF pending[i].orphan THEN stats
                          ELSE StatsAfter(outcome, Answer(pending[i]))
              /\ lastStep' = Step("stats", StatsOutcome(outcome), FALSE, FALSE, FALSE)
        /\ IF pending[i].kind = "stats" /\ ~pending[i].orphan /\ route = "dashboard"
           THEN /\ dashLoading' = FALSE
                /\ IF ~listening
                   THEN /\ listening' = TRUE
                        /\ pending' = RemoveAt(pending, i) \o fetchActivitiesRequests(token)
                        /\ feedLoading' = (token # <<>>)
                        /\ feedError' = IF token = <<>>
                                        THEN <<"Authentication token not available">>
                                        ELSE <<>>
                   ELSE /\ pending' = RemoveAt(pending, i)
                        /\ UNCHANGED <<listening, feedLoading, feedError>>
           ELSE /\ pending' = RemoveAt(pending, i)
                /\ UNCHANGED <<dashLoading, listening, feedLoading, feedError>>
        /\ lastEmitted' = <<>>
        /\ UNCHANGED <<pageVars, activities, fetchedDistinct, authVars, route, now, ops,
                       pipeVars, serverVars>>

\* time passes
Tick ==
    /\ now < 2 * DayLen
    /\ now' = now + 1
    /\ lastEmitted' = <<>>
    /\ lastStep' = NoStep
    /\ UNCHANGED <<pageVars, feedVars, authVars, route, pending, ops, pipeVars, dashVars>>

\* the dashboard after its first render and its mount effects, for a user
\* who is logged in: fetchTaskStats has run to its await
FeedInit ==
    /\ PageMounted
    /\ FeedAbsent
    /\ DashAbsent
    /\ serverTasks = <<>>
    /\ deletedIds = {}
    /\ isAuthenticated = TRUE
    /\ token = <<1>>
    /\ route = "dashboard"
    /\ pending = fetchTaskStatsRequests(isAuthenticated, token)
    /\ now = DayLen
    /\ ops = 0
    /\ lastEmitted = <<>>
    /\ lastStep = NoStep
    /\ phase = "feed"
    /\ reapplied = <<>>
    /\ dateString = <<>>
    /\ formatted = <<>>
    /\ tzOffset = 0
    /\ ApiIdle

FeedNext ==
    \/ StatsResponse
    \/ FetchResponse
    \/ TaskActivityEvent
    \/ DashAuthChange
    \/ Tick

SpecFeed == FeedInit /\ [][FeedNext]_vars

-----------------------------------------------------------------------------
(* The statistics of the dashboard: the back end's task set changes with   *)
(* the task operations of the window, each followed by 'task-updated'.     *)

\* the task sets the back end holds when the dashboard is mounted
DashServerLists == { <<>>, <<PoolTask(1), ToggledTask(PoolTask(2))>> }

\* the back end's task set after one task operation: a task completed or
\* re-opened, a task deleted, a task created
ServerAfterOp(list) ==
    {ReplaceById(list, list[k].id, ToggledTask(list[k])) : k \in 1..Len(list)}
        \cup {SelectSeq(list, LAMBDA t : t.id # list[k].id) : k \in 1..Len(list)}
        \cup {Append(list, PoolTask(j)) :
                 j \in {m \in 1..MaxTasks : \A k \in 1..Len(list) : list[k].id # m}}

\* the back end reads the task set and sends its answer to a request of the
\* dashboard; the response is on its way
StatsServed ==
    \E i \in 1..Len(pending) :
        /\ pending[i].kind \in StatsKinds
        /\ ~IsSome(pending[i].answer)
        /\ pending' = [pending EXCEPT ![i].answer = Some(serverTasks)]
        /\ lastEmitted' = <<>>
        /\ lastStep' = NoStep
        /\ UNCHANGED <<pageVars, feedVars, authVars, route, now, ops, pipeVars, dashVars>>

\* a task operation of the window succeeded on the back end and dispatched
\* 'task-updated' while the dashboard listens
TaskUpdatedEvent ==
    /\ route = "dashboard"
    /\ ops < MaxUpdates
    /\ \E after \in ServerAfterOp(serverTasks) : serverTasks' = after
    /\ pending' = pending \o handleTaskUpdated(TRUE)
    /\ ops' = ops + 1
    /\ lastEmitted' = <<>>
    /\ lastStep' = NoStep
    /\ UNCHANGED <<pageVars, feedVars, authVars, route, now, pipeVars, stats, dashLoading,
                   deletedIds>>

\* the dashboard after its first render and its mount effects, for a user
\* who is logged in: fetchTaskStats has run to its await
DashInit ==
    /\ PageMounted
    /\ FeedAbsent
    /\ DashAbsent
    /\ serverTasks \in DashServerLists
    /\ deletedIds = {}
    /\ isAuthenticated = TRUE
    /\ token = <<1>>
    /\ route = "dashboard"
    /\ pending = fetchTaskStatsRequests(TRUE, <<1>>)
    /\ now = DayLen
    /\ ops = 0
    /\ lastEmitted = <<>>
    /\ lastStep = NoStep
    /\ phase = "dash"
    /\ reapplied = <<>>
    /\ dateString = <<>>
    /\ formatted = <<>>
    /\ tzOffset = 0
    /\ ApiIdle

DashNext ==
    \/ StatsServed
    \/ StatsResponse
    \/ TaskUpdatedEvent

SpecDash == DashInit /\ [][DashNext]_vars

-----------------------------------------------------------------------------
(* The application: the dashboard, the tasks page and the new-task page *)

\* the <Link>s each page renders
Links(from) ==
    CASE from = "tasks" -> {"dashboard", "new"}
      [] from = "new" -> {"tasks"}
      [] from = "dashboard" -> {"tasks", "new"}
      [] OTHER -> {}

\* every page's mount effect leaves for /login without authentication
MountRoute(to) == IF ~isAuthenticated \/ token = <<>> THEN "login" ELSE to

\* the requests the mount effects of a page start
MountRequests(to) ==
    CASE to = "tasks" -> loadTasksRequests(isAuthenticated, token, NoParams)
      [] to = "dashboard" -> fetchTaskStatsRequests(isAuthenticated, token)
      [] OTHER -> <<>>

\* the router shows another page: the page on screen is unmounted (its
\* requests stay in flight), the new one is mounted and runs its mount effects
Go(to, reqs) ==
    /\ route' = MountRoute(to)
    /\ pending' = Orphaned(reqs, ComponentKinds) \o MountRequests(to)
    /\ PageReset
    /\ FeedReset
    /\ DashReset

\* the user follows a link of the page on screen
Navigate ==
    /\ UserCan
    /\ route = "tasks" => ~loading
    /\ route = "dashboard" => listening
    /\ \E to \in Links(route) : Go(to, pending)
    /\ ops' = ops + 1
    /\ lastEmitted' = <<>>
    /\ lastStep' = NoStep
    /\ UNCHANGED <<authVars, now, pipeVars, serverVars>>

\* what the user enters as the title of a new task
NewTitles == { <<"a">>, <<>>, <<" ">>, <<" ", "a">> }

\* String.prototype.trim()
RECURSIVE TrimStart(_)
TrimStart(str) ==
    IF str # <<>> /\ Head(str) = " " THEN TrimStart(Tail(str)) ELSE str

RECURSIVE TrimEnd(_)
TrimEnd(str) ==
    IF str # <<>> /\ str[Len(str)] = " " THEN TrimEnd(SubSeq(str, 1, Len(str) - 1))
    ELSE str

trim(str) == TrimEnd(TrimStart(str))

\* handleSubmit of the new-task page, up to its await; the button is
\* disabled while a submission is in flight
handleSubmit ==
    /\ route = "new"
    /\ isAuthenticated /\ token # <<>>
    /\ UserCan
    /\ \A i \in 1..Len(pending) : pending[i].kind = "create" => pending[i].orphan
    /\ \E title \in NewTitles :
          IF trim(title) = <<>>
          THEN \* setError('Title is required')
               /\ pending' = pending
               /\ lastStep' = Step("submit", "none", FALSE, TRUE, FALSE)
          ELSE /\ pending' =
                     Append(pending,
                            Req("create", token, NoParams, None, None,
                                Some([InitialForm EXCEPT !.title = Capitalize(title)])))
               /\ lastStep' = NoStep
    /\ ops' = ops + 1
    /\ lastEmitted' = <<>>
    /\ UNCHANGED <<pageVars, feedVars, authVars, route, now, pipeVars, dashVars>>

\* the rest of handleSubmit: the response of tasksApi.createTask
CreateResponse ==
    \E i \in 1..Len(pending) :
        /\ pending[i].kind = "create"
        /\ \/ \* result.success && result.task
              \E n \in ActIds, created \in CreatedAtValues(now) :
                 LET form == TheVal(pending[i].form)
                     newTask == Task(7, form.title, None, FALSE, form.priority, None,
                                     created)
                     activity == ActivityDetail(n, "task_created", newTask,
                                                newTask.created_at)
                 IN /\ activities' = ActivitiesAfterDispatch(activity)
                    /\ lastEmitted' = <<activity>>
                    /\ pending' = Append(RemoveAt(pending, i) \o handleTaskUpdated(TRUE),
                                         Req("push", None, NoParams, None, None, None))
                    /\ lastStep' = Step("create", "ok", FALSE, FALSE, TRUE)
           \/ \* no success, or the call throws: setError, on a page still mounted
              \E outcome \in Failures :
                 /\ pending' = RemoveAt(pending, i)
                 /\ lastEmitted' = <<>>
                 /\ lastStep' = Step("create", outcome, FALSE, ~pending[i].orphan, FALSE)
                 /\ UNCHANGED activities
        /\ UNCHANGED <<pageVars, feedLoading, feedError, listening, fetchedDistinct,
                       authVars, route, now, ops, pipeVars, dashVars>>

\* useAuth() changes while the new-task page is mounted: its effect
\* (new/page.tsx:33) leaves for /login without authentication
NewAuthChange ==
    /\ route = "new"
    /\ UserCan
    /\ \E a \in AuthStates :
          /\ <<isAuthenticated, token>> # a
          /\ isAuthenticated' = a[1]
          /\ token' = a[2]
          /\ IF ~a[1] \/ a[2] = <<>>
             THEN /\ route' = "login"
                  /\ pending' = Orphaned(pending, ComponentKinds)
             ELSE UNCHANGED <<route, pending>>
    /\ ops' = ops + 1
    /\ lastEmitted' = <<>>
    /\ lastStep' = NoStep
    /\ UNCHANGED <<pageVars, feedVars, now, pipeVars, dashVars>>

\* router.push('/tasks') of handleSubmit takes effect
RouterPush ==
    \E i \in 1..Len(pending) :
        /\ pending[i].kind = "push"
        /\ IF route = "tasks"
           THEN /\ pending' = RemoveAt(pending, i)
                /\ UNCHANGED <<pageVars, feedVars, route, stats, dashLoading>>
           ELSE Go("tasks", RemoveAt(pending, i))
        /\ lastEmitted' = <<>>
        /\ lastStep' = NoStep
        /\ UNCHANGED <<authVars, now, ops, pipeVars, serverVars>>

\* a page of the application after its first render and its mount effects,
\* for a user who is logged in
AppInit ==
    /\ PageMounted
    /\ FeedAbsent
    /\ DashAbsent
    /\ serverTasks = <<PoolTask(1), PoolTask(4)>>
    /\ deletedIds = {}
    /\ isAuthenticated = TRUE
    /\ token = <<1>>
    /\ route \in {"tasks", "new", "dashboard"}
    /\ pending = MountRequests(route)
    /\ now = DayLen
    /\ ops = 0
    /\ lastEmitted = <<>>
    /\ lastStep = NoStep
    /\ phase = "app"
    /\ reapplied = <<>>
    /\ dateString = <<>>
    /\ formatted = <<>>
    /\ tzOffset = 0
    /\ ApiIdle

AppNext ==
    \/ PageNext
    \/ Navigate
    \/ handleSubmit
    \/ CreateResponse
    \/ RouterPush
    \/ StatsResponse
    \/ FetchResponse
    \/ DashAuthChange
    \/ NewAuthChange

SpecApp == AppInit /\ [][AppNext]_vars

-----------------------------------------------------------------------------
(* Properties of the pipeline, checked under SpecPipe *)

\* C3: sorted by 'priority', direction 'desc' puts every high-priority task
\* before every medium one and every medium before every low one, and
\* direction 'asc' yields the reverse rank order.
C3_PriorityDescHighFirst ==
    (phase = "applied" /\ sortBy = "priority") =>
        \A i, j \in 1..Len(filteredTasks) :
            i < j =>
                IF sortOrder = "desc"
                THEN pOrder(filteredTasks[i].priority) >= pOrder(filteredTasks[j].priority)
                ELSE pOrder(filteredTasks[i].priority) <= pOrder(filteredTasks[j].priority)

\* C4: sorted by 'due_date', every task without a due_date comes after every
\* task with one, for 'asc' and for 'desc'.
C4_MissingDueDatesLast ==
    (phase = "applied" /\ sortBy = "due_date") =>
        \A i, j \in 1..Len(filteredTasks) :
            (IsSome(filteredTasks[i].due_date) /\ ~IsSome(filteredTasks[j].due_date))
                => i < j

\* C6: a call of applyFiltersAndSorting leaves the collection it was handed
\* as it was (same tasks, same order) and writes filteredTasks only.
C6_SourceUntouched ==
    [][ (phase = "input" /\ phase' = "applied") =>
            /\ tasks' = tasks
            /\ UNCHANGED <<loading, paramVars, editVars, effectPending, now>> ]_vars

C6_Witness ==
    /\ phase = "applied"
    /\ Len(tasks) >= 2
    /\ Range(filteredTasks) = Range(tasks)
    /\ filteredTasks # tasks

\* C7: the pipeline applied to its own output, with the same search term,
\* status filter, sort key and direction, yields that output again.
C7_PipelineIdempotent ==
    phase = "reapplied" => reapplied = filteredTasks

C7_Witness ==
    /\ phase = "reapplied"
    /\ searchTerm # <<>>
    /\ filter # "all"
    /\ Len(filteredTasks) >= 2
    /\ filteredTasks # tasks
    /\ \E i, j \in 1..Len(filteredTasks) :
          i < j /\ Comparator(filteredTasks[i], filteredTasks[j], sortBy, sortOrder) = 0

\* the start of the calendar day that holds the clock's instant
StartOfToday(clock) ==
    CHOOSE d \in 0..clock : d % DayLen = 0 /\ d <= clock /\ clock < d + DayLen

C8_Expected(t, f, clock) ==
    CASE f = "active"    -> ~t.completed
      [] f = "completed" -> t.completed
      [] f = "overdue"   -> /\ ~t.completed
                            /\ IsSome(t.due_date)
                            /\ TheVal(t.due_date) < StartOfToday(clock)
      [] f = "upcoming"  -> /\ ~t.completed
                            /\ IsSome(t.due_date)
                            /\ TheVal(t.due_date) >= StartOfToday(clock)
      [] f = "all"       -> TRUE

\* C8: the status filter keeps exactly the incomplete tasks ('active'), the
\* completed ones ('completed'), the incomplete ones due before the start of
\* today ('overdue'), the incomplete ones due at or after it ('upcoming'),
\* every task ('all'); 'overdue' and 'upcoming' are disjoint, their union is
\* the incomplete tasks with a due_date, a task without one is in neither.
C8_StatusFilterExact ==
    /\ (phase = "applied" /\ searchTerm = <<>>) =>
          /\ Range(filteredTasks) \subseteq Range(tasks)
          /\ \A t \in Range(tasks) :
                (t \in Range(filteredTasks)) <=> C8_Expected(t, filter, now)
    /\ \A t \in Range(tasks) :
          /\ ~(StatusKeeps(t, "overdue", now) /\ StatusKeeps(t, "upcoming", now))
          /\ (StatusKeeps(t, "overdue", now) \/ StatusKeeps(t, "upcoming", now))
                <=> (~t.completed /\ IsSome(t.due_date))

C8_Witness ==
    /\ phase = "applied"
    /\ searchTerm = <<>>
    /\ filter = "overdue"
    /\ filteredTasks # <<>>
    /\ \E t \in Range(tasks) :
          /\ ~t.completed
          /\ IsSome(t.due_date)
          /\ TheVal(t.due_date) = StartOfToday(now)
          /\ t \notin Range(filteredTasks)
    /\ \E t \in Range(tasks) : ~IsSome(t.due_date) /\ ~t.completed

\* p occurs in s as a run of consecutive letters
IsSubstring(p, s) ==
    \E pre, post \in 0..Len(s) :
        /\ pre + Len(p) + post = Len(s)
        /\ \A k \in 1..Len(p) : s[pre + k] = p[k]

C9_Matches(t, st) ==
    \/ IsSubstring(toLowerCase(st), toLowerCase(t.title))
    \/ /\ IsSome(t.description)
       /\ IsSubstring(toLowerCase(st), toLowerCase(TheVal(t.description)))

\* C9: with a non-empty search term a task is kept iff the lower-cased term
\* is a substring of its lower-cased title or description (a task with no
\* description: of its title); an empty term keeps every task.
C9_SearchExact ==
    phase = "applied" =>
        /\ (searchTerm # <<>>) =>
              \A t \in Range(filteredTasks) : C9_Matches(t, searchTerm)
        /\ (searchTerm # <<>> /\ filter = "all") =>
              \A t \in Range(tasks) :
                  (t \in Range(filteredTasks)) <=> C9_Matches(t, searchTerm)
        /\ (searchTerm = <<>> /\ filter = "all") =>
              Range(filteredTasks) = Range(tasks)

C9_Witness ==
    /\ phase = "applied"
    /\ filter = "all"
    /\ searchTerm # toLowerCase(searchTerm)
    /\ \E t \in Range(filteredTasks) :
          /\ ~IsSubstring(toLowerCase(searchTerm), toLowerCase(t.title))
          /\ IsSome(t.description)
    /\ \E t \in Range(tasks) :
          ~IsSome(t.description) /\ t \notin Range(filteredTasks)

-----------------------------------------------------------------------------
(* Properties of formatTimeAgo, checked under SpecTime *)

\* C16: formatTimeAgo returns "just now" when the timestamp is absent and
\* whenever now minus the timestamp is under 60 seconds (timestamps in the
\* future included), and nothing else in those cases.
C16_JustNow ==
    (phase = "formatted" /\ (dateString = <<>> \/ now - dateString[1] < 60 * 1000))
        => formatted = << [form |-> "just now"] >>

C16_Witness ==
    /\ phase = "formatted"
    /\ dateString # <<>>
    /\ now - dateString[1] = 59999
    /\ formatted = << [form |-> "just now"] >>

C17_Expected(ts, nowMs) ==
    LET d == (nowMs - ts) \div 1000
        dayOf(t) == t \div 86400000
        timeOf(t) == (t % 86400000) \div 60000
    IN CASE 60 <= d /\ d < 3600 ->
                [form |-> "ago", n |-> d \div 60, unit |-> "minute",
                 s |-> IF d \div 60 = 1 THEN "" ELSE "s"]
         [] 3600 <= d /\ d < 86400 ->
                [form |-> "ago", n |-> d \div 3600, unit |-> "hour",
                 s |-> IF d \div 3600 = 1 THEN "" ELSE "s"]
         [] d >= 86400 /\ dayOf(ts) = dayOf(nowMs) ->
                [form |-> "Today at", time |-> timeOf(ts)]
         [] d >= 86400 /\ dayOf(ts) = dayOf(nowMs) - 1 ->
                [form |-> "Yesterday at", time |-> timeOf(ts)]
         [] d >= 86400 /\ dayOf(ts) < dayOf(nowMs) - 1 /\ d < 604800 ->
                [form |-> "weekday", weekday |-> (dayOf(ts) + 4) % 7, time |-> timeOf(ts)]
         [] OTHER -> [form |-> "date", day |-> dayOf(ts)]

\* C17: for a present timestamp of age d = floor((now - timestamp) / 1000 s)
\* formatTimeAgo picks one form by the first matching case: 60 <= d < 3600
\* gives floor(d / 60) minutes (1..59, singular only for 1); 3600 <= d < 86400
\* gives floor(d / 3600) hours (1..23, singular only for 1); otherwise
\* 'Today at' on now's calendar day, 'Yesterday at' on the previous one, the
\* weekday form when d < 604800, else the month/day/year form.
C17_FirstMatchingCase ==
    (phase = "formatted" /\ dateString # <<>> /\ (now - dateString[1]) \div 1000 >= 60) =>
        /\ formatted = << C17_Expected(dateString[1], now) >>
        /\ formatted[1].form = "ago" =>
              /\ formatted[1].n >= 1
              /\ formatted[1].unit = "minute" => formatted[1].n <= 59
              /\ formatted[1].unit = "hour" => formatted[1].n <= 23

C17_Witness ==
    /\ phase = "formatted"
    /\ dateString # <<>>
    /\ formatted[1].form = "ago"
    /\ formatted[1].unit = "hour"
    /\ formatted[1].n = 1
    /\ formatted[1].s = ""

\* the place of a task in a collection whose ids are distinct
C24_IndexOf(list, task) == CHOOSE k \in 1..Len(list) : list[k].id = task.id

\* C24: the sort of applyFiltersAndSorting is stable for every sort key and
\* both directions: two tasks whose comparator result is 0 appear in the
\* output in the same relative order as in the source collection.
C24_StableSort ==
    phase = "applied" =>
        \A i, j \in 1..Len(filteredTasks) :
            (i < j /\ Comparator(filteredTasks[i], filteredTasks[j], sortBy, sortOrder) = 0)
                => C24_IndexOf(tasks, filteredTasks[i]) < C24_IndexOf(tasks, filteredTasks[j])

C24_Witness ==
    /\ phase = "applied"
    /\ sortOrder = "desc"
    /\ Len(filteredTasks) = 3
    /\ filteredTasks # tasks
    /\ \E i, j \in 1..Len(filteredTasks) :
          /\ i < j
          /\ Comparator(filteredTasks[i], filteredTasks[j], sortBy, sortOrder) = 0

-----------------------------------------------------------------------------
(* Properties of the tasks page, checked under SpecPage *)

\* C5: on the tasks page, once the scheduled effect has run, the displayed
\* list is the pipeline applied to the current task collection with the
\* current search term, status filter, sort key and sort order.
C5_DisplayedIsPipeline ==
    (route = "tasks" /\ ~effectPending) =>
        filteredTasks = applyFiltersAndSorting(tasks, searchTerm, filter, sortBy,
                                               sortOrder, now).filteredTasks

C5_Witness ==
    /\ route = "tasks"
    /\ ~effectPending
    /\ filter = "completed"
    /\ sortOrder = "asc"
    /\ Len(filteredTasks) > 0
    /\ Len(tasks) > Len(filteredTasks)
    /\ \E k \in 1..Len(filteredTasks) : filteredTasks[k] \notin TaskPool

\* C13: when a toggle, edit or delete request does not succeed (success:
\* false, or the call throws) the tasks collection is what it was before, no
\* 'task-updated' and no 'task-activity' event is dispatched, and for a
\* failed edit the edit modal stays as it was (open).
C13_FailureLeavesState ==
    [][(lastStep'.op \in {"toggle", "edit", "delete"} /\ lastStep'.outcome \in Failures) =>
           /\ tasks' = tasks
           /\ ~lastStep'.updated
           /\ lastEmitted' = <<>>
           /\ lastStep'.op = "edit" => editingTask' = editingTask]_vars

C13_Witness ==
    /\ lastStep.op = "edit"
    /\ lastStep.outcome = "failed"
    /\ IsSome(editingTask)
    /\ tasks # <<>>
    /\ \A i \in 1..Len(pending) : pending[i].kind # "edit"

\* C19: through the controls of the tasks page the user can reach every
\* status filter value (all, active, completed, overdue, upcoming) and every
\* sort key (created_at, due_date, priority, title).  filter and sortBy are
\* written by their select only, so a value can be reached exactly when the
\* select, while the page shows it, lets the user choose it.
C19_EveryValueSelectable ==
    (PageShown /\ UserCan) =>
        /\ \A v \in {"all", "active", "completed", "overdue", "upcoming"} :
               filter = v \/ ENABLED (SetFilter /\ filter' = v)
        /\ \A v \in {"created_at", "due_date", "priority", "title"} :
               sortBy = v \/ ENABLED (SetSortBy /\ sortBy' = v)

\* the delete requests a step adds to those in flight
\* (a request is the same request whether or not its component is still mounted)
C20_Issued(before, after) ==
    LET same(r, q) == [r EXCEPT !.orphan = FALSE] = [q EXCEPT !.orphan = FALSE]
    IN {i \in 1..Len(after) :
          /\ after[i].kind = "delete"
          /\ Cardinality({j \in 1..Len(after) : same(after[j], after[i])})
                > Cardinality({j \in 1..Len(before) : same(before[j], after[i])})}

\* C20: a delete request for a task is issued only after the user clicked
\* Delete on that task's item and then Confirm, with no Cancel in between;
\* Delete alone, or Delete then Cancel, issues no request and leaves the
\* tasks collection unchanged; after Confirm or Cancel the item is back in
\* its non-confirming state.
C20_DeleteNeedsConfirm ==
    [][/\ \A i \in C20_Issued(pending, pending') :
              /\ lastStep'.op = "confirmDelete"
              /\ TheVal(pending'[i].task).id \in showConfirmDelete
              /\ TheVal(pending'[i].task).id \notin showConfirmDelete'
       /\ lastStep'.op \in {"deleteClick", "cancelDelete"} =>
              /\ pending' = pending
              /\ tasks' = tasks
       /\ lastStep'.op = "deleteClick" =>
              /\ showConfirmDelete \subseteq showConfirmDelete'
              /\ Cardinality(showConfirmDelete') = Cardinality(showConfirmDelete) + 1
       /\ lastStep'.op \in {"confirmDelete", "cancelDelete"} =>
              /\ showConfirmDelete' \subseteq showConfirmDelete
              /\ Cardinality(showConfirmDelete') = Cardinality(showConfirmDelete) - 1]_vars

C20_Witness ==
    /\ lastStep.op = "confirmDelete"
    /\ \E i \in 1..Len(pending) :
          /\ pending[i].kind = "delete"
          /\ TheVal(pending[i].task).id \notin showConfirmDelete
    /\ showConfirmDelete # {}

\* C26: once a delete of task id k succeeded and k was removed from the local
\* tasks collection, k never reappears in tasks or filteredTasks, under any
\* interleaving with an in-flight loadTasks, toggle or edit response (the
\* server never re-creates k).
C26_DeletedStaysGone ==
    [][route' = "tasks" =>
          \A k \in deletedIds :
              /\ k \notin ItemIds(tasks) => k \notin ItemIds(tasks')
              /\ (k \notin ItemIds(tasks) /\ k \notin ItemIds(filteredTasks))
                    => k \notin ItemIds(filteredTasks')]_vars

\* the requests of the given kind a step takes out of those in flight, on a
\* page that is still mounted
C27_Answered(kind) ==
    {i \in 1..Len(pending) :
        /\ pending[i].kind = kind
        /\ ~pending[i].orphan
        /\ Len(pending') >= Len(pending) - 1
        /\ SubSeq(pending', 1, Len(pending) - 1) = RemoveAt(pending, i)}

\* the places of a collection that hold a task with the given id
C27_Places(list, id) == {m \in 1..Len(list) : list[m].id = id}

\* C27: a successful toggle or edit of task id k replaces only the entry with
\* id k in the tasks collection by the task the server returned, and a
\* successful delete removes only the entries with id k: every other task,
\* the collection's order, and (for toggle and edit) its length are unchanged;
\* if the server echoes the same id, task ids stay pairwise distinct.
C27_OnlyEntryKChanges ==
    [][lastStep'.outcome = "ok" =>
          /\ lastStep'.op = "toggle" =>
                \A i \in C27_Answered("toggle") :
                    LET k == TheVal(pending[i].task).id
                        returned == ToggledTask(TheVal(pending[i].task))
                    IN /\ Len(tasks') = Len(tasks)
                       /\ \A m \in 1..Len(tasks) :
                              tasks'[m] = IF m \in C27_Places(tasks, k) THEN returned
                                          ELSE tasks[m]
                       /\ DistinctIds(tasks) => DistinctIds(tasks')
          /\ lastStep'.op = "edit" =>
                \A i \in C27_Answered("edit") :
                    LET k == TheVal(pending[i].task).id
                        returned == EditedTask(TheVal(pending[i].task),
                                               TheVal(pending[i].form))
                    IN /\ Len(tasks') = Len(tasks)
                       /\ \A m \in 1..Len(tasks) :
                              tasks'[m] = IF m \in C27_Places(tasks, k) THEN returned
                                          ELSE tasks[m]
                       /\ DistinctIds(tasks) => DistinctIds(tasks')
          /\ lastStep'.op = "delete" =>
                \A i \in C27_Answered("delete") :
                    LET k == TheVal(pending[i].task).id
                        kept == {m \in 1..Len(tasks) : tasks[m].id # k}
                    IN /\ Len(tasks') = Cardinality(kept)
                       /\ \A m \in kept :
                              tasks'[Cardinality({n \in kept : n <= m})] = tasks[m]
                       /\ DistinctIds(tasks) => DistinctIds(tasks')]_vars

C27_Witness ==
    /\ route = "tasks"
    /\ lastStep.op = "toggle"
    /\ lastStep.outcome = "ok"
    /\ Len(tasks) = 3
    /\ tasks[3].id = 1
    /\ tasks[3].completed
    /\ ~tasks[1].completed

\* no call of the given kinds by a mounted component is in flight
C30_Settled(kinds) ==
    \A i \in 1..Len(pending) : pending[i].kind \in kinds => pending[i].orphan

\* C30: on the tasks page, the dashboard and the activity feed the loading
\* flag eventually becomes false after mount in every case: authenticated with
\* a successful fetch, authenticated with a failed or throwing fetch, and
\* unauthenticated or without a token.  Stated on the states in which the
\* component's mount effect has run and its fetch is no longer in flight.
C30_LoadingEnds ==
    /\ (phase = "page" /\ C30_Settled({"load"})) => ~loading
    /\ (route = "tasks" /\ C30_Settled({"load"})) => ~loading
    /\ (route = "dashboard" /\ C30_Settled({"stats"})) => ~dashLoading
    /\ (listening /\ C30_Settled({"fetch"})) => ~feedLoading

-----------------------------------------------------------------------------
(* Properties of the activity feed, checked under SpecFeed *)

\* C1: the activities list never holds more than 10 entries.
C1_FeedAtMostTen == Len(activities) <= FeedLimit

C1_Witness ==
    /\ Len(activities) = FeedLimit
    /\ lastEmitted # <<>>
    /\ activities[1].id[1] = "act"
    /\ activities[FeedLimit].id[1] = "srv"
    /\ activities[FeedLimit].id[2] > 2

\* C2 as stated: after any merge by handleTaskActivity no two entries have
\* the same id, whatever the server response fetched before.
C2_NoDuplicateIdsAfterMerge ==
    (listening /\ lastEmitted # <<>>) => NoDupIds(activities)

\* C2 as amended: after any merge by handleTaskActivity no two entries have
\* the same id, provided the server response last fetched held no id twice.
C2_NoDuplicateIdsAfterMergeOfDistinct ==
    (listening /\ lastEmitted # <<>> /\ fetchedDistinct) => NoDupIds(activities)

C2_Witness ==
    /\ listening
    /\ lastEmitted # <<>>
    /\ fetchedDistinct
    /\ Len(activities) = FeedLimit
    /\ activities[1].id[1] = "act"
    /\ activities[2].id[1] = "act"
    /\ activities[3].id[1] = "srv"

RECURSIVE C11_Without(_, _)
C11_Without(L, id) ==
    IF L = <<>> THEN <<>>
    ELSE IF Head(L).id = id THEN C11_Without(Tail(L), id)
         ELSE <<Head(L)>> \o C11_Without(Tail(L), id)

C11_Expected(L, e) ==
    LET all == << [id |-> e.id, action |-> e.type, task_title |-> e.taskTitle,
                   created_at |-> e.timestamp] >> \o C11_Without(L, e.id)
    IN SubSeq(all, 1, IF Len(all) < 10 THEN Len(all) ELSE 10)

\* C11: handleTaskActivity applied to a feed L and an event e yields e's
\* converted activity first, followed by the entries of L whose id differs
\* from e's id in their original relative order, cut to the first 10 entries.
C11_MergeResult ==
    [][(listening /\ lastEmitted' # <<>>) =>
           activities' = C11_Expected(activities, lastEmitted'[1])]_vars

C11_Witness ==
    /\ listening
    /\ lastEmitted # <<>>
    /\ Len(activities) = 10
    /\ activities[1] = convertedActivity(lastEmitted[1])
    /\ activities[1].id = <<"act", 1>>
    /\ activities[2].id = <<"act", 2>>
    /\ activities[10].id[1] = "srv"

\* C12: in every reachable state of the feed the entries are ordered newest
\* first: of two consecutive entries the earlier one's created_at is not
\* older than the later one's.
C12_NewestFirst ==
    \A k \in 1..(Len(activities) - 1) :
        activities[k].created_at >= activities[k + 1].created_at

\* the number of activities fetches in flight
C25_Fetches(reqs) == Cardinality({i \in 1..Len(reqs) : reqs[i].kind = "fetch"})

\* C25: a local activity event handled by the feed while the mount-time
\* activities fetch is still in flight remains in the feed after that fetch
\* completes: a fetch completion never removes an entry added by
\* handleTaskActivity.
C25_FetchKeepsLocalEntries ==
    [][(listening /\ listening' /\ C25_Fetches(pending') < C25_Fetches(pending)) =>
          \A k \in 1..Len(activities) :
              activities[k].id[1] = "act" =>
                  \E m \in 1..Len(activities') : activities'[m] = activities[k]]_vars

-----------------------------------------------------------------------------
(* Properties of the application, checked under SpecApp *)

\* C10: after each successful local task mutation (create, edit, toggle,
\* delete) one 'task-activity' event with a client-generated id is emitted,
\* and the activity feed then holds that activity as its first entry.
C10_EmittedActivityHeadsFeed ==
    lastEmitted # <<>> =>
        /\ lastEmitted[1].id[1] = "act"
        /\ activities # <<>>
        /\ activities[1] = convertedActivity(lastEmitted[1])

\* C14: every failed task operation is surfaced to the user: whenever a
\* create, edit, toggle or delete request ends with success: false or with a
\* thrown error, an alert is shown or an inline error text is set.
C14_FailureSurfaced ==
    (lastStep.op \in {"create", "edit", "toggle", "delete"} /\ lastStep.outcome \in Failures)
        => (lastStep.alert \/ lastStep.errorText)

\* a request as it was issued
C15_Issued(r) == [r EXCEPT !.orphan = FALSE]

\* how often a request occurs among those in flight
C15_Count(reqs, r) ==
    Cardinality({j \in 1..Len(reqs) : C15_Issued(reqs[j]) = C15_Issued(r)})

\* C15: no request is sent to the back end without a bearer token: loadTasks,
\* handleToggleComplete, handleDeleteTask, handleSaveEdit, handleSubmit,
\* fetchTaskStats and the activity fetch issue no call while the token is
\* absent, and every call they issue carries the current token.
C15_RequestsCarryToken ==
    [][\A i \in 1..Len(pending') :
           (/\ pending'[i].kind \in ComponentKinds
            /\ C15_Count(pending', pending'[i]) > C15_Count(pending, pending'[i]))
               => (pending'[i].token # <<>> /\ pending'[i].token = token')]_vars

C15_Witness ==
    /\ token = <<2>>
    /\ \E i, j \in 1..Len(pending) :
          /\ pending[i].kind = "load" /\ pending[i].token = <<1>>
          /\ pending[j].kind = "toggle" /\ pending[j].token = <<2>>

C18_IsLetter(c) == c \in {"a", "b", "A", "B"}

C18_FirstNonBlank(title) ==
    LET k == CHOOSE k \in 1..Len(title) :
                 title[k] # " " /\ \A m \in 1..(k - 1) : title[m] = " "
    IN title[k]

\* C18: every task title sent to the back end by a create or an edit starts
\* with an upper-case letter whenever the title the user entered has a
\* letter as its first non-blank character.  (The title sent differs from
\* the one entered at most in the case of its first character, so the sent
\* title has a letter as its first non-blank character exactly when the
\* entered one has.)
C18_SentTitleCapitalized ==
    \A i \in 1..Len(pending) :
        pending[i].kind \in {"create", "edit"} =>
            LET title == TheVal(pending[i].form).title
            IN ((\E k \in 1..Len(title) : title[k] # " ")
                    /\ C18_IsLetter(C18_FirstNonBlank(title)))
                  => title[1] \in {"A", "B"}

\* C29: no create or update request with a blank title (empty or whitespace
\* only) is ever sent: the new-task handleSubmit sets the error 'Title is
\* required' and sends nothing, and handleSaveEdit sends nothing, when the
\* entered title is blank.
C29_NoBlankTitleSent ==
    /\ \A i \in 1..Len(pending) :
          pending[i].kind \in {"create", "edit"} =>
              trim(TheVal(pending[i].form).title) # <<>>
    /\ lastStep.op = "submit" => lastStep.errorText

-----------------------------------------------------------------------------
(* Properties of the dashboard's statistics, checked under SpecDash *)

\* the numbers of tasks, of completed tasks and of incomplete tasks of a list
C21_Counts(list) ==
    [total |-> Cardinality({k \in 1..Len(list) : TRUE}),
     completed |-> Cardinality({k \in 1..Len(list) : list[k].completed}),
     pending |-> Cardinality({k \in 1..Len(list) : ~list[k].completed})]

\* C21: the dashboard counters are real-time: after any sequence of
\* 'task-updated' events, once every stats fetch they triggered has completed
\* (the last of them with a task list), the displayed stats equal the counts
\* of the server's current task set, whatever order the responses arrive in.
C21_StatsCurrent ==
    (/\ route = "dashboard"
     /\ \A i \in 1..Len(pending) : pending[i].kind \notin StatsKinds
     /\ lastStep.op = "stats"
     /\ lastStep.outcome = "ok")
        => stats = C21_Counts(serverTasks)

\* the requests of the dashboard a step takes out of those in flight
C22_Answered(before, after) ==
    {i \in 1..Len(before) :
        /\ before[i].kind \in StatsKinds
        /\ Len(after) >= Len(before) - 1
        /\ SubSeq(after, 1, Len(before) - 1) = RemoveAt(before, i)}

C22_Counts(list) ==
    [total |-> Len(list),
     completed |-> Len(SelectSeq(list, LAMBDA t : t.completed)),
     pending |-> Len(SelectSeq(list, LAMBDA t : ~t.completed))]

\* C22: in every reachable state of the dashboard, stats.total =
\* stats.completed + stats.pending; after a successful stats fetch the three
\* values are the size of the fetched list, the number of its completed tasks
\* and the number of its incomplete tasks; after a failed fetch (success=false,
\* missing task list, or thrown error) all three are 0.
C22_StatsOfFetchedList ==
    /\ [](stats.total = stats.completed + stats.pending)
    /\ [][lastStep'.op = "stats" =>
             \A i \in C22_Answered(pending, pending') :
                 ~pending[i].orphan =>
                     IF lastStep'.outcome = "ok"
                     THEN stats' = C22_Counts(Answer(pending[i]))
                     ELSE /\ lastStep'.outcome = "failed"
                          /\ stats' = [total |-> 0, completed |-> 0, pending |-> 0]]_vars

C22_Witness ==
    /\ route = "dashboard"
    /\ lastStep.op = "stats"
    /\ lastStep.outcome = "ok"
    /\ stats.completed > 0
    /\ stats.pending > 0
    /\ stats.total = 3

====
